---- MODULE Spec2Model ----
(***************************************************************************)
(* A model of the swing-analyzer form-analysis engine.                     *)
(*                                                                         *)
(* Part 1: FormAnalyzerBase (src/src/analyzers/FormAnalyzerBase.ts), the   *)
(* shared phase/rep state machine.  One analyzer instance is a record; each *)
(* method of the class is an operator from the instance (and the method's  *)
(* arguments) to the instance after the call, and each action is one call  *)
(* of a method.  processFrame, calculateRepQuality and resetExerciseState  *)
(* are abstract in the base class: the concrete analyzers drive the        *)
(* protected methods from their processFrame.                              *)
(***************************************************************************)
EXTENDS Integers, Sequences, FiniteSets, TLC

VARIABLES
    exercise,   \* the concrete analyzer: its initial phase, and whether its resetExerciseState restores it
    an,         \* the analyzer instance (fields of FormAnalyzerBase)
    last,       \* the last method call made on the instance: name, arguments, result
    dwell,      \* frames counted since the phase last changed by transitionTo (saturates at minFramesInPhase)
    heap,       \* the RepPosition arrays completeRep() has returned that are still referenced
    held,       \* the caller's reference to the first rep's positions, with their content when returned
    hook,       \* useExerciseAnalyzer: status and repCount state, pipelineRef and the frame handler's refs
    pipelineReps, \* the cumulative rep count of the pipeline behind pipelineRef
    failRun,    \* pipeline calls that threw since the last one that returned
    lastFrame,  \* the last run of the frame handler: its outcome and the state it started from
    reducerState, \* useAnalyzerState: the state useReducer holds
    detection,  \* useExerciseDetection: its five state values
    subscription, \* the detection subscription of the session effect: the isDetectionLocked its closure saw
    detectionCall, \* the last call on the detection hook: name and arguments
    override,   \* the exercise the user selected since the last resetDetectionState(), if any
    nav,        \* useRepNavigation: its props (thumbnails, rep count and index, position) and the video element
    loader,     \* video loading: the abort controllers made, the controller ref, the loads and the loading indicator
    track,      \* a pose track: its frames, and whether the speed pass has run over them
    squat,      \* the last depth measurement: the normalized ear Y and the depth percentage
    canvas,     \* the skeleton canvas: the video and container sizes, zoom and crop, and the placement applied
    stable,     \* crop detection: the video size, the frames seen and the crop region calculated
    session,    \* the session effect: its re-runs since the mount, the pipeline and session in the refs, the sessions disposed
    wait,       \* the metadata wait of loadVideoSafely: its promise, listeners and timer, and the events that reached it
    sync,       \* the playback effect: the playing flag, the frame callback, the callback clock, the stamp of the throttle, and the last call of the sync handler
    thumbnails  \* the reducer's thumbnail Maps as objects: the inner Maps by identity, the outer Map of the current state and of the state given to the last call

analyzerVars == <<exercise, an, last, dwell>>

heldVars == <<heap, held>>

hookVars == <<hook, pipelineReps, failRun, lastFrame>>

reducerVars == <<reducerState>>

detectionVars == <<detection, subscription, detectionCall, override>>

navVars == <<nav>>

loadVars == <<loader>>

trackVars == <<track>>

depthVars == <<squat>>

canvasVars == <<canvas>>

cropVars == <<stable>>

geometryVars == <<depthVars, canvasVars, cropVars>>

sessionVars == <<session>>

waitVars == <<wait>>

syncVars == <<sync>>

thumbVars == <<thumbnails>>

\* What no call on the analyzer touches.
outsideAnalyzer == <<hookVars, reducerVars, detectionVars, navVars, loadVars, trackVars, geometryVars, sessionVars, waitVars, syncVars, thumbVars>>

\* What no step of the useExerciseAnalyzer hook touches.
outsideHook == <<analyzerVars, heldVars, reducerVars, detectionVars, navVars, loadVars, trackVars, geometryVars, sessionVars, waitVars, syncVars, thumbVars>>

\* What no dispatch to the reducer touches.
outsideReducer == <<analyzerVars, heldVars, hookVars, detectionVars, navVars, loadVars, trackVars, geometryVars, sessionVars, waitVars, syncVars, thumbVars>>

\* What no step of the detection hook touches, the status line apart.
outsideDetection == <<analyzerVars, heldVars, reducerVars, navVars, loadVars, trackVars, geometryVars, sessionVars, waitVars, syncVars, thumbVars>>

\* What no step of the navigation hook touches.
outsideNavigation == <<analyzerVars, heldVars, hookVars, reducerVars, detectionVars, loadVars, trackVars, geometryVars, sessionVars, waitVars, syncVars, thumbVars>>

\* What no step of a video load touches.
outsideLoad == <<analyzerVars, heldVars, reducerVars, failRun, subscription, trackVars, geometryVars, sessionVars, waitVars, syncVars, thumbVars>>

\* What no step of a pose track touches.
outsideTrack == <<analyzerVars, heldVars, hookVars, reducerVars, detectionVars, navVars, loadVars, geometryVars, sessionVars, waitVars, syncVars, thumbVars>>

\* What no run of the session effect or of its cleanup touches, the hook,
\* the detection and the loads apart.
outsideSession ==
    <<analyzerVars, heldVars, reducerVars, navVars, trackVars, geometryVars, waitVars, syncVars, thumbVars>>

\* What no step of the metadata wait touches.
outsideWait ==
    <<analyzerVars, heldVars, hookVars, reducerVars, detectionVars, navVars,
      loadVars, trackVars, geometryVars, sessionVars, syncVars, thumbVars>>

\* What no playback event touches.
outsideSync ==
    <<analyzerVars, heldVars, hookVars, reducerVars, detectionVars, loadVars,
      trackVars, geometryVars, sessionVars, waitVars, thumbVars>>

\* What no dispatch of a thumbnail action touches.
outsideThumbs ==
    <<analyzerVars, heldVars, hookVars, detectionVars, navVars, loadVars,
      trackVars, geometryVars, sessionVars, waitVars, syncVars>>

\* What no depth measurement touches.
outsideDepth ==
    <<analyzerVars, heldVars, hookVars, reducerVars, detectionVars, navVars,
      loadVars, trackVars, canvasVars, cropVars, sessionVars, waitVars, syncVars, thumbVars>>

\* What no placement of the canvas touches.
outsideCanvas ==
    <<analyzerVars, heldVars, hookVars, reducerVars, detectionVars, navVars,
      loadVars, trackVars, depthVars, cropVars, sessionVars, waitVars, syncVars, thumbVars>>

\* What no step of crop detection touches.
outsideCrop ==
    <<analyzerVars, heldVars, hookVars, reducerVars, detectionVars, navVars,
      loadVars, trackVars, depthVars, canvasVars, sessionVars, waitVars, syncVars, thumbVars>>

vars ==
    <<analyzerVars, heldVars, hookVars, reducerVars, detectionVars, navVars,
      loadVars, trackVars, geometryVars, sessionVars, waitVars, syncVars, thumbVars>>

-----------------------------------------------------------------------------
(* Bounds of the model *)

\* Frames are counted in one phase up to this many.
MaxFrames == 2

\* Reps are completed up to this many between resets.
MaxReps == 2

-----------------------------------------------------------------------------
(* Values *)

\* The phases of the exercise in cycle order (the kettlebell swing's).
Phases == <<"top", "connect", "bottom", "release">>

PhaseSet == {Phases[i] : i \in 1..Len(Phases)}

\* An optional field that is absent (videoTime?: VideoTimeSeconds).
Undefined == -1

\* lastRepQuality: RepQuality | null
Null == [kind |-> "null"]

\* No peak stored under a phase key of currentRepPeaks.
NoPeak == [kind |-> "none"]

\* Peaks a concrete analyzer may hand to storePeak: two frames of a video, the
\* second without a video time.  Every field value is distinct.
Peak(ph, sk, ts, vt, sc, sp) ==
    [kind |-> "peak", phase |-> ph, skeleton |-> sk, timestamp |-> ts,
     videoTime |-> vt, score |-> sc, angles |-> [spine |-> sp]]

PeaksFor(ph) ==
    { Peak(ph, "skeletonA", 1000, 1, 80, 45),
      Peak(ph, "skeletonB", 2000, Undefined, 90, 60) }

asRepCount(n) == n

asFrameCount(n) == n

\* protected readonly minFramesInPhase = asFrameCount(2)
minFramesInPhase == asFrameCount(2)

\* currentRepPeaks = {}
EmptyPeaks == [p \in PhaseSet |-> NoPeak]

\* The instance a constructor call leaves.
NewAnalyzer(initialPhase) ==
    [phase |-> initialPhase,
     repCount |-> asRepCount(0),
     lastRepQuality |-> Null,
     framesInPhase |-> asFrameCount(0),
     currentRepPeaks |-> EmptyPeaks,
     exerciseState |-> "initial"]

-----------------------------------------------------------------------------
(* Methods of FormAnalyzerBase *)

getPhase(self) == self.phase

getRepCount(self) == self.repCount

getLastRepQuality(self) == self.lastRepQuality

getPeak(self, phase) == self.currentRepPeaks[phase]

\* The phases with a stored peak, in the exercise's phase order.
StoredPhases(self) ==
    SelectSeq(Phases, LAMBDA p : self.currentRepPeaks[p] # NoPeak)

\* The exercise-specific scorer: a score 0..100 from the peaks collected for
\* the rep (25 points for each phase with a peak).
calculateRepQuality(self) ==
    [kind |-> "quality",
     score |-> 25 * Len(StoredPhases(self)),
     feedback |-> <<>>]

\* The exercise-specific reset, called with the base state already cleared: it
\* clears the exercise's own metrics and history buffers, and the concrete
\* analyzer decides whether the phase returns to the initial one.
resetExerciseState(self, ex) ==
    IF ex.resetRestoresPhase
    THEN [self EXCEPT !.exerciseState = "initial", !.phase = ex.initialPhase]
    ELSE [self EXCEPT !.exerciseState = "initial"]

\* The assignments of reset() before it calls resetExerciseState().
resetBase_keepsPeaks(self) ==
    [self EXCEPT !.repCount = asRepCount(0),
                 !.framesInPhase = asFrameCount(0),
                 !.lastRepQuality = Null]

resetBase_restoresPhase(self) ==
    [self EXCEPT !.phase = Phases[1],
                 !.repCount = asRepCount(0),
                 !.framesInPhase = asFrameCount(0),
                 !.lastRepQuality = Null,
                 !.currentRepPeaks = EmptyPeaks]

resetBase(self) ==
    [self EXCEPT !.repCount = asRepCount(0),
                 !.framesInPhase = asFrameCount(0),
                 !.lastRepQuality = Null,
                 !.currentRepPeaks = EmptyPeaks]

reset(self, ex) == resetExerciseState(resetBase(self), ex)

canTransition_oneFrame(self) == self.framesInPhase >= minFramesInPhase - 1

canTransition(self) == self.framesInPhase >= minFramesInPhase

transitionTo_keepsCounter(self, newPhase) == [self EXCEPT !.phase = newPhase]

transitionTo(self, newPhase) ==
    [self EXCEPT !.phase = newPhase, !.framesInPhase = asFrameCount(0)]

\* One RepPosition per entry of currentRepPeaks that holds a peak.
PositionOf(phaseName, peak) ==
    [name |-> phaseName,
     skeleton |-> peak.skeleton,
     timestamp |-> peak.timestamp,
     videoTime |-> peak.videoTime,
     angles |-> peak.angles,
     score |-> peak.score]

convertPeaksToPositions_all(self) ==
    [i \in 1..Len(Phases) |->
        IF self.currentRepPeaks[Phases[i]] = NoPeak
        THEN [name |-> Phases[i], skeleton |-> "none", timestamp |-> 0,
              videoTime |-> Undefined, angles |-> [spine |-> 0], score |-> 0]
        ELSE PositionOf(Phases[i], self.currentRepPeaks[Phases[i]])]

convertPeaksToPositions(self) ==
    LET stored == StoredPhases(self)
    IN  [i \in 1..Len(stored) |-> PositionOf(stored[i], self.currentRepPeaks[stored[i]])]

completeRep_addsTwo(self) ==
    LET counted == [self EXCEPT !.repCount = asRepCount(@ + 2)]
        scored == [counted EXCEPT !.lastRepQuality = calculateRepQuality(counted)]
    IN  [self |-> [scored EXCEPT !.currentRepPeaks = EmptyPeaks],
         repPositions |-> convertPeaksToPositions(scored),
         repQuality |-> scored.lastRepQuality]

\* completeRep(): the instance after the call and the object it returns.
completeRep(self) ==
    LET counted == [self EXCEPT !.repCount = asRepCount(@ + 1)]
        scored == [counted EXCEPT !.lastRepQuality = calculateRepQuality(counted)]
        repPositions == convertPeaksToPositions(scored)
    IN  [self |-> [scored EXCEPT !.currentRepPeaks = EmptyPeaks],
         repPositions |-> repPositions,
         repQuality |-> scored.lastRepQuality]

\* completeRep() when calculateRepQuality() throws: the statements before the
\* call of the scorer have run, the assignment of its result and the
\* statements after it have not, and the exception leaves the method.
completeRepThrown(self) ==
    [self EXCEPT !.repCount = asRepCount(@ + 1)]

storePeak_clearsOthers(self, phase, peak) ==
    [self EXCEPT !.currentRepPeaks = [EmptyPeaks EXCEPT ![phase] = peak]]

storePeak(self, phase, peak) ==
    [self EXCEPT !.currentRepPeaks[phase] = peak]

-----------------------------------------------------------------------------
(* The concrete analyzer's use of the base class *)

\* The phase after ph in the cycle: transitions are strictly ordered.
NextPhase(ph) ==
    LET i == CHOOSE k \in 1..Len(Phases) : Phases[k] = ph
    IN  Phases[(i % Len(Phases)) + 1]

Exercises ==
    [initialPhase : {Phases[1]}, resetRestoresPhase : BOOLEAN]

Bump(d) == IF d < minFramesInPhase THEN d + 1 ELSE d

-----------------------------------------------------------------------------
(* Part 2: the frame handler of useExerciseAnalyzer                         *)
(* (src/src/hooks/useExerciseAnalyzer.tsx), which feeds every skeleton event *)
(* to the pipeline and keeps the displayed rep count.                        *)

\* Frames are handled up to this many between two batch completions.
MaxFrameIndex == 3

\* The pipeline throws up to this many times in a row.
MaxErrorRun == 6

MAX_CONSECUTIVE_ERRORS == 5

DegradedNotice == "Analysis experiencing errors - some frames may be skipped"

\* The hook's state after the first render, before its effects have run.
NewHook ==
    [status |-> "Loading...",
     repCount |-> 0,
     pipeline |-> "null",
     prevRepCount |-> 0,
     frameIndex |-> 0,
     consecutiveErrors |-> 0]

\* How a run of the handler ends: the call of pipeline.processSkeletonEvent is
\* inside try { } catch (error) { ...; return }, so what it throws is caught
\* and the handler returns; nothing else on the failure path throws.
handlerExit_noCatch(h, event, outcome) ==
    IF event.skeleton /\ h.pipeline # "null" /\ outcome.threw
    THEN "throws" ELSE "returns"

handlerExit(h, event, outcome) ==
    IF ~event.skeleton THEN "returns"
    ELSE IF h.pipeline = "null" THEN "returns"
    ELSE IF outcome.threw THEN "returns"
    ELSE "returns"

processSkeletonEvent_countsSkipped(h, event, outcome) ==
    IF ~event.skeleton THEN h
    ELSE IF h.pipeline = "null" THEN h
    ELSE IF outcome.threw
    THEN [h EXCEPT !.consecutiveErrors = @ + 1,
                   !.frameIndex = @ + 1,
                   !.status = IF h.consecutiveErrors + 1 = MAX_CONSECUTIVE_ERRORS
                              THEN DegradedNotice ELSE @]
    ELSE [h EXCEPT !.consecutiveErrors = 0,
                   !.frameIndex = @ + 1,
                   !.prevRepCount = IF outcome.result > @ THEN outcome.result ELSE @,
                   !.repCount = outcome.result]

processSkeletonEvent_noReset(h, event, outcome) ==
    IF ~event.skeleton THEN h
    ELSE IF h.pipeline = "null" THEN h
    ELSE IF outcome.threw
    THEN [h EXCEPT !.consecutiveErrors = @ + 1,
                   !.status = IF h.consecutiveErrors + 1 = MAX_CONSECUTIVE_ERRORS
                              THEN DegradedNotice ELSE @]
    ELSE [h EXCEPT !.frameIndex = @ + 1,
                   !.prevRepCount = IF outcome.result > @ THEN outcome.result ELSE @,
                   !.repCount = outcome.result]

\* processSkeletonEvent(event), with what pipeline.processSkeletonEvent(event)
\* does when it is called: throw, or return the cumulative rep count.
processSkeletonEvent(h, event, outcome) ==
    IF ~event.skeleton THEN h
    ELSE IF h.pipeline = "null" THEN h
    ELSE IF outcome.threw
    THEN [h EXCEPT !.consecutiveErrors = @ + 1,
                   !.status = IF h.consecutiveErrors + 1 = MAX_CONSECUTIVE_ERRORS
                              THEN DegradedNotice ELSE @]
    ELSE [h EXCEPT !.consecutiveErrors = 0,
                   !.frameIndex = @ + 1,
                   !.prevRepCount = IF outcome.result > @ THEN outcome.result ELSE @,
                   !.repCount = outcome.result]

\* What the pipeline may do with one skeleton: throw, return the rep count as
\* it is, or count a rep and return the new count.
PipelineOutcomes ==
    {o \in [threw : BOOLEAN, result : {pipelineReps, pipelineReps + 1}] :
        /\ o.result <= MaxReps
        /\ o.threw => o.result = pipelineReps}

\* The record of a step of the hook that is not a run of the frame handler.
NotAFrame(h) ==
    [outcome |-> "none", result |-> h.repCount, exit |-> "returns",
     statusBefore |-> h.status, frameIndexBefore |-> h.frameIndex,
     repCountBefore |-> h.repCount, prevRepCountBefore |-> h.prevRepCount]

-----------------------------------------------------------------------------
(* Part 3: analyzerReducer (src/src/hooks/useAnalyzerState.ts), the reducer *)
(* behind useAnalyzerState.  The state is a record shaped like AnalyzerState; *)
(* a video state is a record with the fields of its member of the VideoState *)
(* union and no others.                                                      *)

\* SET_REP_COUNT is dispatched with counts up to this many.
MaxCount == 2

\* Files a video can be loaded from.
Files == {"fileA", "fileB"}

\* An optional message that is absent (message?: string).
NoMessage == "<undefined>"

\* currentPosition: string | null
NullPosition == "<null>"

\* ExtractionProgress values: the one EXTRACTION_START writes, and one reported
\* halfway through a video.
ZeroProgress ==
    [currentFrame |-> 0, totalFrames |-> 0, percentage |-> 0,
     currentTime |-> 0, totalDuration |-> 0]

HalfProgress ==
    [currentFrame |-> 30, totalFrames |-> 60, percentage |-> 50,
     currentTime |-> 1, totalDuration |-> 2]

SomeRegion == [x |-> 10, y |-> 20, width |-> 300, height |-> 400]

\* An empty Map or object.
EmptyMap == [k \in {} |-> 0]

\* map.set(key, value) on a copy of map.
MapSet(map, key, value) ==
    [k \in DOMAIN map \cup {key} |-> IF k = key THEN value ELSE map[k]]

\* map.get(key) ?? new Map()
MapGetOrNew(map, key) == IF key \in DOMAIN map THEN map[key] ELSE EmptyMap

asMetersPerSecond(n) == n

\* `Loading... ${progress}%`
LoadingPercent(progress) ==
    IF progress = 50 THEN "Loading... 50%" ELSE "Loading... 100%"

\* `Error: ${message}`
ErrorStatus(message) ==
    IF message = "boom" THEN "Error: boom" ELSE "Error: Loading video..."

initialAnalyzerState ==
    [video |-> [type |-> "idle"],
     hud |-> [spineAngle |-> 0,
              armAngle |-> 0,
              wristVelocity |-> asMetersPerSecond(0),
              currentAngles |-> EmptyMap,
              currentPosition |-> NullPosition],
     analysis |-> [repCount |-> 0,
                   repThumbnails |-> EmptyMap,
                   hasPosesForCurrentFrame |-> FALSE],
     view |-> [cropRegion |-> Null,
               isCropEnabled |-> FALSE,
               isLandscape |-> FALSE,
               displayMode |-> "both",
               status |-> "Loading..."],
     isModelLoaded |-> FALSE,
     currentRepIndex |-> 0]

\* The cases of the reducer's switch, each from the state and the action to
\* the state returned.

case_START_LOADING(state, action) ==
    [state EXCEPT !.video = [type |-> "loading", message |-> action.message,
                              progress |-> Undefined],
                  !.view.status = action.message]

case_LOADING_PROGRESS(state, action) ==
    IF state.video.type # "loading" THEN state
    ELSE [state EXCEPT
            !.video = [type |-> "loading",
                       progress |-> action.progress,
                       message |-> IF action.message # NoMessage
                                   THEN action.message ELSE state.video.message],
            !.view.status = IF action.message # NoMessage
                            THEN action.message ELSE LoadingPercent(action.progress)]

case_VIDEO_LOADED_fromAnywhere(state, action) ==
    [state EXCEPT !.video = [type |-> "ready", videoFile |-> action.videoFile],
                  !.view.status = "Video loaded. Press Play to start."]

case_VIDEO_LOADED(state, action) ==
    IF state.video.type # "loading" /\ state.video.type # "extracting" THEN state
    ELSE [state EXCEPT !.video = [type |-> "ready", videoFile |-> action.videoFile],
                       !.view.status = "Video loaded. Press Play to start."]

case_EXTRACTION_START(state, action) ==
    IF state.video.type # "loading" THEN state
    ELSE [state EXCEPT !.video = [type |-> "extracting",
                                   videoFile |-> action.videoFile,
                                   progress |-> ZeroProgress],
                       !.view.status = "Extracting poses..."]

case_EXTRACTION_PROGRESS(state, action) ==
    IF state.video.type # "extracting" THEN state
    ELSE [state EXCEPT !.video.progress = action.progress]

case_EXTRACTION_COMPLETE(state, action) ==
    IF state.video.type # "extracting" THEN state
    ELSE [state EXCEPT !.video = [type |-> "ready", videoFile |-> state.video.videoFile],
                       !.view.status = "Video loaded. Press Play to start."]

case_PLAY(state, action) ==
    IF state.video.type # "ready" /\ state.video.type # "playing" THEN state
    ELSE [state EXCEPT !.video = [type |-> "playing", videoFile |-> state.video.videoFile]]

case_PAUSE_dropsFile(state, action) ==
    IF state.video.type # "playing" THEN state
    ELSE [state EXCEPT !.video = [type |-> "ready"]]

\* case 'PAUSE': case 'VIDEO_ENDED':
case_PAUSE(state, action) ==
    IF state.video.type # "playing" THEN state
    ELSE [state EXCEPT !.video = [type |-> "ready", videoFile |-> state.video.videoFile]]

case_ERROR(state, action) ==
    [state EXCEPT !.video = [type |-> "error", message |-> action.message],
                  !.view.status = ErrorStatus(action.message)]

case_RESET_VIDEO_clearsHud(state, action) ==
    [state EXCEPT !.video = [type |-> "idle"],
                  !.hud = initialAnalyzerState.hud,
                  !.analysis = [repCount |-> 0,
                                repThumbnails |-> EmptyMap,
                                hasPosesForCurrentFrame |-> FALSE],
                  !.currentRepIndex = 0,
                  !.view.status = "Ready"]

case_RESET_VIDEO(state, action) ==
    [state EXCEPT !.video = [type |-> "idle"],
                  !.analysis = [repCount |-> 0,
                                repThumbnails |-> EmptyMap,
                                hasPosesForCurrentFrame |-> FALSE],
                  !.currentRepIndex = 0,
                  !.view.status = "Ready"]

case_SET_REP_COUNT(state, action) ==
    [state EXCEPT !.analysis.repCount = action.count]

case_ADD_THUMBNAIL(state, action) ==
    LET repMap == MapSet(MapGetOrNew(state.analysis.repThumbnails, action.repNum),
                         action.position, action.candidate)
    IN  [state EXCEPT !.analysis.repThumbnails = MapSet(@, action.repNum, repMap)]

case_SET_REP_THUMBNAILS(state, action) ==
    [state EXCEPT !.analysis.repThumbnails = MapSet(@, action.repNum, action.positions)]

case_CLEAR_THUMBNAILS(state, action) ==
    [state EXCEPT !.analysis.repThumbnails = EmptyMap]

case_SET_HAS_POSES(state, action) ==
    [state EXCEPT !.analysis.hasPosesForCurrentFrame = action.hasPoses]

case_UPDATE_HUD(state, action) ==
    [state EXCEPT !.hud.spineAngle = action.spineAngle,
                  !.hud.armAngle = action.armAngle,
                  !.hud.wristVelocity = IF action.wristVelocity # Undefined
                                        THEN asMetersPerSecond(action.wristVelocity)
                                        ELSE @]

case_UPDATE_ANGLES(state, action) ==
    [state EXCEPT !.hud.currentAngles = action.angles]

case_SET_POSITION(state, action) ==
    [state EXCEPT !.hud.currentPosition = action.position,
                  !.view.status = IF action.position \notin {NullPosition, ""}
                                  THEN action.position ELSE @]

case_TOGGLE_CROP(state, action) ==
    [state EXCEPT !.view.isCropEnabled = ~@]

case_SET_CROP_REGION(state, action) ==
    [state EXCEPT !.view.cropRegion = action.region]

case_SET_DISPLAY_MODE(state, action) ==
    [state EXCEPT !.view.displayMode = action.mode]

case_SET_LANDSCAPE(state, action) ==
    [state EXCEPT !.view.isLandscape = action.isLandscape]

case_SET_STATUS(state, action) ==
    [state EXCEPT !.view.status = action.status]

case_MODEL_LOADED(state, action) ==
    [state EXCEPT !.isModelLoaded = TRUE, !.view.status = "Ready"]

case_SET_REP_INDEX_upToCount(state, action) ==
    IF action.index < 0 \/ action.index > state.analysis.repCount THEN state
    ELSE [state EXCEPT !.currentRepIndex = action.index]

case_SET_REP_INDEX(state, action) ==
    IF action.index < 0 \/ action.index >= state.analysis.repCount THEN state
    ELSE [state EXCEPT !.currentRepIndex = action.index]

case_RESET_ALL(state, action) ==
    [initialAnalyzerState EXCEPT !.isModelLoaded = state.isModelLoaded]

analyzerReducer(state, action) ==
    CASE action.type = "START_LOADING" -> case_START_LOADING(state, action)
      [] action.type = "LOADING_PROGRESS" -> case_LOADING_PROGRESS(state, action)
      [] action.type = "VIDEO_LOADED" -> case_VIDEO_LOADED(state, action)
      [] action.type = "EXTRACTION_START" -> case_EXTRACTION_START(state, action)
      [] action.type = "EXTRACTION_PROGRESS" -> case_EXTRACTION_PROGRESS(state, action)
      [] action.type = "EXTRACTION_COMPLETE" -> case_EXTRACTION_COMPLETE(state, action)
      [] action.type = "PLAY" -> case_PLAY(state, action)
      [] action.type \in {"PAUSE", "VIDEO_ENDED"} -> case_PAUSE(state, action)
      [] action.type = "ERROR" -> case_ERROR(state, action)
      [] action.type = "RESET_VIDEO" -> case_RESET_VIDEO(state, action)
      [] action.type = "SET_REP_COUNT" -> case_SET_REP_COUNT(state, action)
      [] action.type = "ADD_THUMBNAIL" -> case_ADD_THUMBNAIL(state, action)
      [] action.type = "SET_REP_THUMBNAILS" -> case_SET_REP_THUMBNAILS(state, action)
      [] action.type = "CLEAR_THUMBNAILS" -> case_CLEAR_THUMBNAILS(state, action)
      [] action.type = "SET_HAS_POSES" -> case_SET_HAS_POSES(state, action)
      [] action.type = "UPDATE_HUD" -> case_UPDATE_HUD(state, action)
      [] action.type = "UPDATE_ANGLES" -> case_UPDATE_ANGLES(state, action)
      [] action.type = "SET_POSITION" -> case_SET_POSITION(state, action)
      [] action.type = "TOGGLE_CROP" -> case_TOGGLE_CROP(state, action)
      [] action.type = "SET_CROP_REGION" -> case_SET_CROP_REGION(state, action)
      [] action.type = "SET_DISPLAY_MODE" -> case_SET_DISPLAY_MODE(state, action)
      [] action.type = "SET_LANDSCAPE" -> case_SET_LANDSCAPE(state, action)
      [] action.type = "SET_STATUS" -> case_SET_STATUS(state, action)
      [] action.type = "MODEL_LOADED" -> case_MODEL_LOADED(state, action)
      [] action.type = "SET_REP_INDEX" -> case_SET_REP_INDEX(state, action)
      [] action.type = "RESET_ALL" -> case_RESET_ALL(state, action)
      [] OTHER -> state

\* getVideoFile(state)
getVideoFile(state) ==
    IF state.video.type \in {"extracting", "ready", "playing"}
    THEN state.video.videoFile
    ELSE "null"

\* The part of useExerciseAnalyzer's appState the rep gallery reads.
NewAppState(index) ==
    [displayMode |-> "both", isModelLoaded |-> FALSE, isProcessing |-> FALSE,
     currentRepIndex |-> index]

\* setCurrentRepIndexCallback(index), created in a render that saw repCount.
setCurrentRepIndexCallback(appState, repCount, index) ==
    IF index < 0 \/ index >= repCount THEN appState
    ELSE [appState EXCEPT !.currentRepIndex = index]

\* The actions dispatched to the reducer, grouped as in AnalyzerAction.
VideoActions ==
    [type : {"START_LOADING"}, message : {"Loading video..."}]
    \cup [type : {"LOADING_PROGRESS"}, progress : {50}, message : {NoMessage, "Halfway"}]
    \cup [type : {"VIDEO_LOADED", "EXTRACTION_START"}, videoFile : Files]
    \cup [type : {"EXTRACTION_PROGRESS"}, progress : {HalfProgress}]
    \cup [type : {"EXTRACTION_COMPLETE", "PLAY", "PAUSE", "VIDEO_ENDED", "RESET_VIDEO"}]
    \cup [type : {"ERROR"}, message : {"boom"}]

AnalysisActions ==
    [type : {"SET_REP_COUNT"}, count : 0..MaxCount]
    \cup [type : {"ADD_THUMBNAIL"}, repNum : {1}, position : {"top"}, candidate : {"candidateA"}]
    \cup [type : {"SET_REP_THUMBNAILS"}, repNum : {1}, positions : {EmptyMap}]
    \cup [type : {"CLEAR_THUMBNAILS"}]
    \cup [type : {"SET_HAS_POSES"}, hasPoses : BOOLEAN]

HudActions ==
    [type : {"UPDATE_HUD"}, spineAngle : {10}, armAngle : {20}, wristVelocity : {Undefined, 5}]
    \cup [type : {"UPDATE_ANGLES"}, angles : {[spine |-> 45]}]
    \cup [type : {"SET_POSITION"}, position : {"top", NullPosition}]

ViewActions ==
    [type : {"TOGGLE_CROP"}]
    \cup [type : {"SET_CROP_REGION"}, region : {SomeRegion, Null}]
    \cup [type : {"SET_DISPLAY_MODE"}, mode : {"both", "video"}]
    \cup [type : {"SET_LANDSCAPE"}, isLandscape : BOOLEAN]
    \cup [type : {"SET_STATUS"}, status : {"Custom"}]

ModelActions == [type : {"MODEL_LOADED"}]

NavigationActions == [type : {"SET_REP_INDEX"}, index : (0 - 1)..MaxCount]

ResetActions == [type : {"RESET_ALL"}]

AnalyzerActions ==
    VideoActions \cup AnalysisActions \cup HudActions \cup ViewActions
    \cup ModelActions \cup NavigationActions \cup ResetActions

\* What is dispatched while a video is loaded, analysed and played.
LifecycleActions ==
    VideoActions \cup AnalysisActions \cup ModelActions
    \cup NavigationActions \cup ResetActions

\* What is dispatched from the display and its controls, with the loads,
\* failures and resets that reach the display's status line.
DisplayActions ==
    HudActions \cup ViewActions \cup ModelActions \cup NavigationActions
    \cup ResetActions
    \cup {a \in VideoActions : a.type \in {"START_LOADING", "ERROR", "RESET_VIDEO"}}
    \cup {a \in AnalysisActions : a.type \in {"SET_REP_COUNT", "ADD_THUMBNAIL"}}

-----------------------------------------------------------------------------
(* Part 4: useExerciseDetection (src/src/hooks/useExerciseDetection.ts) and  *)
(* the detection subscription of useExerciseAnalyzer that feeds it.          *)

DEFAULT_PHASES == <<"top", "connect", "bottom", "release">>

\* The phases the pistol squat analyzer reports.
PistolSquatPhases == <<"standing", "descending", "bottom", "ascending">>

\* Confidence scores of detection events, on both sides of the lock threshold.
Confidences == {50, 89, 90, 100}

\* workingLeg: 'left' | 'right' | null
NullLeg == "null"

\* The state of the hook after its first render.
NewDetection ==
    [detectedExercise |-> "unknown",
     detectionConfidence |-> 0,
     isDetectionLocked |-> FALSE,
     currentPhases |-> DEFAULT_PHASES,
     workingLeg |-> NullLeg]

handleDetectionEvent_locksAbove90(d, event, wasAlreadyLocked, pipelinePhases) ==
    IF wasAlreadyLocked THEN d
    ELSE [detectedExercise |-> event.exercise,
          detectionConfidence |-> event.confidence,
          isDetectionLocked |-> event.confidence > 90,
          currentPhases |-> pipelinePhases,
          workingLeg |-> event.workingLeg]

handleDetectionEvent_whenLocked(d, event, wasAlreadyLocked, pipelinePhases) ==
    [detectedExercise |-> event.exercise,
     detectionConfidence |-> event.confidence,
     isDetectionLocked |-> event.confidence >= 90,
     currentPhases |-> pipelinePhases,
     workingLeg |-> event.workingLeg]

\* handleDetectionEvent(detection, wasAlreadyLocked); pipelinePhases is
\* getPhasesFromPipeline?.() ?? DEFAULT_PHASES.
handleDetectionEvent(d, event, wasAlreadyLocked, pipelinePhases) ==
    IF wasAlreadyLocked THEN d
    ELSE [detectedExercise |-> event.exercise,
          detectionConfidence |-> event.confidence,
          isDetectionLocked |-> event.confidence >= 90,
          currentPhases |-> pipelinePhases,
          workingLeg |-> event.workingLeg]

handleLegacyDetectionLock(d, exerciseType, phases) ==
    [d EXCEPT !.detectedExercise = exerciseType,
              !.isDetectionLocked = TRUE,
              !.currentPhases = phases]

setExerciseType(d, exerciseType, pipelinePhases) ==
    [d EXCEPT !.detectedExercise = exerciseType,
              !.isDetectionLocked = TRUE,
              !.currentPhases = pipelinePhases]

resetDetectionState(d) ==
    [d EXCEPT !.detectedExercise = "unknown",
              !.detectionConfidence = 0,
              !.isDetectionLocked = FALSE,
              !.currentPhases = DEFAULT_PHASES,
              !.workingLeg = NullLeg]

\* The detection events the pipeline emits, with the working leg the form
\* analyzer reports (formAnalyzer.getWorkingLeg?.() ?? null).
DetectionEvents ==
    [exercise : {"kettlebell-swing"}, confidence : Confidences, workingLeg : {NullLeg}]
    \cup [exercise : {"pistol-squat"}, confidence : Confidences, workingLeg : {"left", "right"}]

\* What getPhasesFromPipeline?.() ?? DEFAULT_PHASES may be.
PipelinePhases == {DEFAULT_PHASES, PistolSquatPhases}

\* The subscription made by a run of the session effect: its next handler
\* passes the isDetectionLocked of the render the effect ran in.
Subscribed(d) == [locked |-> d.isDetectionLocked]

\* The session effect re-runs up to this many times.
MaxEffectRuns == 2

\* The objects of the session effect when the component has mounted.  A
\* pipeline and a session are named by the re-run of the effect that made
\* them, 0 for the ones made on mount.
NewSession == [reruns |-> 0, pipeline |-> 0, session |-> 0, disposed |-> {}]

\* The cleanup of the session effect: the subscriptions are ended and the
\* session it made is disposed; pipelineRef is left as it is.
sessionCleanup(s) == [s EXCEPT !.disposed = @ \cup {s.session}]

\* The body of the session effect, with the video and canvas elements
\* present: initializePipeline() makes a pipeline, then a session is made,
\* and both are put in their refs.
sessionEffect(s) ==
    [s EXCEPT !.reruns = @ + 1, !.pipeline = s.reruns + 1, !.session = s.reruns + 1]

\* React re-runs the effect when a dependency changed: the cleanup of the
\* last run, then the body.
rerunSessionEffect(s) == sessionEffect(sessionCleanup(s))

NoOverride == "none"

NoCall == [op |-> "none"]

-----------------------------------------------------------------------------
(* Part 5: useRepNavigation (src/src/hooks/useRepNavigation.ts) and the      *)
(* checkpoint index it is built on.  Video times are in hundredths of a      *)
(* second.                                                                   *)

\* Reps are captured up to this many.
MaxNavReps == 2

\* currentPhases of the hook: the phase order of the exercise.
NavPhases == <<"top", "bottom">>

\* The video times positions are captured at, less than the sync tolerance
\* apart.
CaptureTimes == {100, 103}

\* The times playback reaches: before every capture time by more than the
\* tolerance, within the tolerance of the first only, at the first, after all.
PlaybackTimes == {0, 96, 100, 150}

\* The tolerance of the time-to-rep resolver: 0.05 s.
SyncTolerance == 5

NoCheckpoint == [kind |-> "undefined"]

\* A PositionCandidate, as far as navigation reads it; inserted is its place
\* in the iteration order of the Map that holds it (the order of insertion).
Candidate(phaseName, time, place) ==
    [position |-> phaseName, videoTime |-> time, inserted |-> place]

\* The phases of the hook as a set.
NavPhaseNames == {NavPhases[i] : i \in 1..Len(NavPhases)}

\* The positions arrays a thumbnail event may bring: any of the phases, in any
\* order, each captured at any of the times.
PositionArrays ==
    {positions \in UNION {[1..k -> [name : NavPhaseNames, videoTime : CaptureTimes]]
                             : k \in 0..Len(NavPhases)} :
        \A i, j \in 1..Len(positions) : i # j => positions[i].name # positions[j].name}

\* The positionMap updateThumbnailState builds from a positions array.
ToCandidates(positions) ==
    [p \in {positions[i].name : i \in 1..Len(positions)} |->
        LET i == CHOOSE k \in 1..Len(positions) : positions[k].name = p
        IN  Candidate(p, positions[i].videoTime, i)]

\* formatPositionForDisplay(position): first letter upper case, rest lower.
formatPositionForDisplay(position) ==
    CASE position = "" -> ""
      [] position \in {"top", "Top", "TOP"} -> "Top"
      [] position \in {"bottom", "Bottom", "BOTTOM"} -> "Bottom"
      [] OTHER -> position

\* The place of a phase in the phase order.
PhaseIndex(phaseOrder, p) ==
    CHOOSE i \in 1..Len(phaseOrder) : phaseOrder[i] = p

\* a comes before b: by video time, then rep number, then phase order.
ComesBefore_byRepFirst(a, b, phaseOrder) ==
    \/ a.repNum < b.repNum
    \/ /\ a.repNum = b.repNum
       /\ \/ a.videoTime < b.videoTime
          \/ /\ a.videoTime = b.videoTime
             /\ PhaseIndex(phaseOrder, a.position) < PhaseIndex(phaseOrder, b.position)

ComesBefore(a, b, phaseOrder) ==
    \/ a.videoTime < b.videoTime
    \/ /\ a.videoTime = b.videoTime
       /\ \/ a.repNum < b.repNum
          \/ /\ a.repNum = b.repNum
             /\ PhaseIndex(phaseOrder, a.position) < PhaseIndex(phaseOrder, b.position)

\* The checkpoints of all reps, not yet ordered.
Flatten(repThumbnails) ==
    UNION { { [repNum |-> r, position |-> p, videoTime |-> repThumbnails[r][p].videoTime]
              : p \in DOMAIN repThumbnails[r] }
            : r \in DOMAIN repThumbnails }

RECURSIVE SortCheckpoints(_, _)
SortCheckpoints(checkpoints, phaseOrder) ==
    IF checkpoints = {} THEN <<>>
    ELSE LET first == CHOOSE c \in checkpoints :
                          \A d \in checkpoints \ {c} : ~ComesBefore(d, c, phaseOrder)
         IN  <<first>> \o SortCheckpoints(checkpoints \ {first}, phaseOrder)

buildCheckpointList(repThumbnails, phaseOrder) ==
    SortCheckpoints(Flatten(repThumbnails), phaseOrder)

findPreviousCheckpoint_orAt(checkpoints, currentTime) ==
    LET before == {i \in 1..Len(checkpoints) : checkpoints[i].videoTime <= currentTime}
    IN  IF before = {} THEN NoCheckpoint
        ELSE checkpoints[CHOOSE i \in before : \A j \in before : j <= i]

findPreviousCheckpoint(checkpoints, currentTime) ==
    LET before == {i \in 1..Len(checkpoints) : checkpoints[i].videoTime < currentTime}
    IN  IF before = {} THEN NoCheckpoint
        ELSE checkpoints[CHOOSE i \in before : \A j \in before : j <= i]

findNextCheckpoint(checkpoints, currentTime) ==
    LET after == {i \in 1..Len(checkpoints) : checkpoints[i].videoTime > currentTime}
    IN  IF after = {} THEN NoCheckpoint
        ELSE checkpoints[CHOOSE i \in after : \A j \in after : i <= j]

\* The hook's props and the video element after the first render.
NewNavigation ==
    [repThumbnails |-> EmptyMap,
     repCount |-> 0,
     currentRepIndex |-> 0,
     currentPosition |-> NullPosition,
     currentTime |-> 0,
     paused |-> TRUE]

getAllCheckpoints(n) == buildCheckpointList(n.repThumbnails, NavPhases)

\* setCurrentRepIndex(index) as useExerciseAnalyzer passes it.
setCurrentRepIndex(n, index) ==
    [n EXCEPT !.currentRepIndex =
        setCurrentRepIndexCallback(NewAppState(n.currentRepIndex), n.repCount, index).currentRepIndex]

\* The body shared by navigateToPreviousCheckpoint and navigateToNextCheckpoint
\* once the checkpoint is found.
seekToCheckpoint(n, checkpoint) ==
    IF checkpoint = NoCheckpoint THEN n
    ELSE LET sought == [n EXCEPT !.paused = TRUE,
                                 !.currentTime = checkpoint.videoTime,
                                 !.currentPosition = formatPositionForDisplay(checkpoint.position)]
             newRepIndex == checkpoint.repNum - 1
         IN  IF newRepIndex # n.currentRepIndex
             THEN setCurrentRepIndex(sought, newRepIndex)
             ELSE sought

navigateToPreviousCheckpoint(n) ==
    LET checkpoints == getAllCheckpoints(n)
    IN  IF Len(checkpoints) = 0 THEN n
        ELSE seekToCheckpoint(n, findPreviousCheckpoint(checkpoints, n.currentTime))

navigateToNextCheckpoint(n) ==
    LET checkpoints == getAllCheckpoints(n)
    IN  IF Len(checkpoints) = 0 THEN n
        ELSE seekToCheckpoint(n, findNextCheckpoint(checkpoints, n.currentTime))

\* String.prototype.toLowerCase on a position label.
toLowerCase(position) ==
    CASE position \in {"top", "Top", "TOP"} -> "top"
      [] position \in {"bottom", "Bottom", "BOTTOM"} -> "bottom"
      [] OTHER -> position

\* currentPosition?.toLowerCase() ?? null
currentPhaseKey(n) ==
    IF n.currentPosition = NullPosition THEN NullPosition
    ELSE toLowerCase(n.currentPosition)

\* repThumbnails.get(targetRepNum); a rep without an entry reads like a rep
\* with an empty map in every use below.
positionsOf(n, targetRepNum) == MapGetOrNew(n.repThumbnails, targetRepNum)

\* positions?.keys().next().value ?? null: the key inserted first.
firstKey(positions) ==
    IF DOMAIN positions = {} THEN NullPosition
    ELSE CHOOSE p \in DOMAIN positions :
            \A q \in DOMAIN positions : positions[p].inserted <= positions[q].inserted

\* currentPhaseKey ? positions?.get(currentPhaseKey) : null, as a test.
hasSamePhaseCheckpoint(n, targetRepNum) ==
    /\ currentPhaseKey(n) \notin {NullPosition, ""}
    /\ currentPhaseKey(n) \in DOMAIN positionsOf(n, targetRepNum)

\* actualPosition of navigateToPreviousRep and navigateToNextRep.
actualPosition(n, targetRepNum) ==
    IF hasSamePhaseCheckpoint(n, targetRepNum) THEN currentPhaseKey(n)
    ELSE firstKey(positionsOf(n, targetRepNum))

\* The body shared by navigateToPreviousRep and navigateToNextRep once the
\* new rep index differs from the current one: the position to seek to is
\* looked up, the video is paused and, when a position was found, sought to
\* it with the label set; the rep index is requested last.
seekToRep_dropsPhase(n, newRepIndex) ==
    LET targetRepNum == newRepIndex + 1
        positions == positionsOf(n, targetRepNum)
        key == firstKey(positions)
        halted == [n EXCEPT !.paused = TRUE]
        sought == IF key = NullPosition THEN halted
                  ELSE [halted EXCEPT !.currentTime = positions[key].videoTime,
                                      !.currentPosition = formatPositionForDisplay(key)]
    IN  setCurrentRepIndex(sought, newRepIndex)

seekToRep(n, newRepIndex) ==
    LET targetRepNum == newRepIndex + 1
        positions == positionsOf(n, targetRepNum)
        key == actualPosition(n, targetRepNum)
        halted == [n EXCEPT !.paused = TRUE]
        sought == IF key = NullPosition THEN halted
                  ELSE [halted EXCEPT !.currentTime = positions[key].videoTime,
                                      !.currentPosition = formatPositionForDisplay(key)]
    IN  setCurrentRepIndex(sought, newRepIndex)

\* Math.max(0, currentRepIndex - 1)
previousRepIndex(n) ==
    IF n.currentRepIndex - 1 > 0 THEN n.currentRepIndex - 1 ELSE 0

\* Math.min(repCount - 1, currentRepIndex + 1)
nextRepIndex(n) ==
    IF n.repCount - 1 < n.currentRepIndex + 1 THEN n.repCount - 1
    ELSE n.currentRepIndex + 1

navigateToPreviousRep(n) ==
    IF previousRepIndex(n) = n.currentRepIndex THEN n
    ELSE seekToRep(n, previousRepIndex(n))

navigateToNextRep(n) ==
    IF n.repCount <= 0 THEN n
    ELSE IF nextRepIndex(n) = n.currentRepIndex THEN n
    ELSE seekToRep(n, nextRepIndex(n))

\* The loop of updateRepAndPositionFromTime from checkpoint i on: the found
\* checkpoint is replaced while the time test passes, and the loop breaks at
\* the first checkpoint that fails it.
RECURSIVE ScanCheckpoints(_, _, _, _)
ScanCheckpoints(checkpoints, i, videoTime, found) ==
    IF i > Len(checkpoints) THEN found
    ELSE IF videoTime >= checkpoints[i].videoTime - SyncTolerance
         THEN ScanCheckpoints(checkpoints, i + 1, videoTime,
                              [repNum |-> checkpoints[i].repNum,
                               position |-> checkpoints[i].position])
         ELSE found

updateRepAndPositionFromTime_noTolerance(n, videoTime) ==
    LET checkpoints == getAllCheckpoints(n)
    IN  IF Len(checkpoints) = 0 THEN n
        ELSE LET found == ScanCheckpoints(checkpoints, 1, videoTime - SyncTolerance,
                                          [repNum |-> 1, position |-> NullPosition])
                 newRepIndex == found.repNum - 1
                 indexed == IF newRepIndex # n.currentRepIndex
                            THEN setCurrentRepIndex(n, newRepIndex) ELSE n
             IN  IF found.position \notin {NullPosition, ""}
                 THEN [indexed EXCEPT !.currentPosition = formatPositionForDisplay(found.position)]
                 ELSE indexed

updateRepAndPositionFromTime(n, videoTime) ==
    LET checkpoints == getAllCheckpoints(n)
    IN  IF Len(checkpoints) = 0 THEN n
        ELSE LET found == ScanCheckpoints(checkpoints, 1, videoTime,
                                          [repNum |-> 1, position |-> NullPosition])
                 newRepIndex == found.repNum - 1
                 indexed == IF newRepIndex # n.currentRepIndex
                            THEN setCurrentRepIndex(n, newRepIndex) ELSE n
             IN  IF found.position \notin {NullPosition, ""}
                 THEN [indexed EXCEPT !.currentPosition = formatPositionForDisplay(found.position)]
                 ELSE indexed

-----------------------------------------------------------------------------
(* Part 6: video loading in useExerciseAnalyzer                              *)
(* (src/src/hooks/useExerciseAnalyzer.tsx, lines 1012-1215).  A load is one  *)
(* run of handleVideoUpload or loadSampleVideo; the i-th load started uses   *)
(* the i-th AbortController made.  A load's pc is the await it is suspended  *)
(* at, or "done" once its async function has returned.  Each step of a load  *)
(* is one JavaScript task: the code from the end of one await to the next.   *)

\* Loads are started up to this many.
MaxLoads == 2

\* The messages and status lines of a load, with one file and one sample.
UploadMessage == "Loading file..."

DownloadMessage == "Downloading sample..."

SampleStatus == "Loading sample sample..."

NotInitialized == "Error: App not initialized. Please refresh."

VideoLoaded == "Video loaded. Press Play to start."

\* The hook's loading state and refs after the first render.
NewLoader ==
    [controllers |-> <<>>,
     ref |-> 0,
     loads |-> <<>>,
     isVideoLoading |-> FALSE,
     videoLoadProgress |-> Undefined,
     videoLoadMessage |-> "",
     mounted |-> TRUE]

\* clearLoadingState()
clearLoadingState(l) ==
    [l EXCEPT !.isVideoLoading = FALSE,
              !.videoLoadProgress = Undefined,
              !.videoLoadMessage = ""]

\* videoLoadAbortControllerRef.current?.abort()
abortCurrent(l) ==
    IF l.ref = 0 THEN l ELSE [l EXCEPT !.controllers[l.ref] = TRUE]

\* prepareVideoLoad(): the controller in the ref is aborted, a new one is made
\* and put in the ref.
prepareVideoLoad_keepsPrevious(l) ==
    [l EXCEPT !.controllers = Append(@, FALSE),
              !.ref = Len(l.controllers) + 1]

prepareVideoLoad(l) ==
    [abortCurrent(l) EXCEPT !.controllers = Append(@, FALSE),
                            !.ref = Len(l.controllers) + 1]

\* resetVideoState(), as far as the navigation props go.
resetVideoStateOfNav(n) ==
    [n EXCEPT !.repThumbnails = EmptyMap, !.repCount = 0]

\* The first two lines of loadVideoSafely: the video is paused at time 0.
rewind(n) == [n EXCEPT !.currentTime = 0, !.paused = TRUE]

\* A load: its kind and the await it is suspended at.
Load(kind, pc) == [kind |-> kind, pc |-> pc]

\* The load i moves to pc.
goTo(l, i, pc) == [l EXCEPT !.loads[i].pc = pc]

\* What a step of a load leaves behind: the loader, the status line and the
\* video element (inside nav).
After(l, status, n) == [loader |-> l, status |-> status, nav |-> n]

\* handleVideoUpload up to its first await, with a file chosen and the
\* session and video element present: loadVideo and loadVideoSafely run in
\* the same task, and the new controller's signal is not aborted, so the load
\* is left waiting for the metadata.
handleVideoUpload(l, status, n) ==
    LET prepared == prepareVideoLoad(l)
        shown == [prepared EXCEPT !.isVideoLoading = TRUE,
                                  !.videoLoadProgress = Undefined,
                                  !.videoLoadMessage = UploadMessage,
                                  !.loads = Append(@, Load("upload", "metadata"))]
    IN  After(shown, status, rewind(resetVideoStateOfNav(n)))

\* loadSampleVideo up to its first await: at the pose track fetch when the
\* sample has a bundled pose track, else at the download.
loadSampleVideo(l, status, n, bundled) ==
    LET prepared == prepareVideoLoad(l)
        shown == [prepared EXCEPT
                    !.isVideoLoading = TRUE,
                    !.videoLoadProgress = Undefined,
                    !.videoLoadMessage =
                        IF bundled THEN "Loading pose data..." ELSE DownloadMessage,
                    !.loads = Append(@, Load("sample",
                                             IF bundled THEN "poseTrack" ELSE "fetch"))]
    IN  After(shown, SampleStatus, resetVideoStateOfNav(n))

\* loadVideo from its call to its first await (or return), for load i.
loadVideo(l, status, n, i) ==
    IF ~l.mounted
    THEN After(goTo(l, i, "done"), NotInitialized, n)
    ELSE IF l.controllers[i]
    THEN After(clearLoadingState(goTo(l, i, "done")), status, rewind(n))
    ELSE After(goTo(l, i, "metadata"), status, rewind(n))

\* The error status of a failed load.
ErrorOf(kind) ==
    IF kind = "upload" THEN "Error: Could not load video"
    ELSE "Error: Could not load sample video"

\* The outcomes the await of load i may have: the promise resolves, rejects
\* with an error, or rejects with an AbortError (the pose track fetch instead
\* returns a result: success, failure, or 'Aborted').  An abort is seen only
\* after the controller was aborted; the metadata wait then has no other
\* outcome, because the abort listener settles it in the aborting task.
Outcomes(l, i) ==
    IF l.loads[i].pc = "done" THEN {}
    ELSE IF ~l.controllers[i] THEN {"resolved", "rejected"}
    ELSE IF l.loads[i].pc = "metadata" THEN {"aborted"}
    ELSE {"resolved", "rejected", "aborted"}

\* The task that runs when the await of load i settles with the outcome.
resume(l, status, n, i, outcome) ==
    LET pc == l.loads[i].pc
        kind == l.loads[i].kind
        failed == After(clearLoadingState(goTo(l, i, "done")), ErrorOf(kind), n)
        cancelled == After(clearLoadingState(goTo(l, i, "done")), status, n)
    IN  CASE pc = "poseTrack" ->
               After([goTo(l, i, "fetch") EXCEPT !.videoLoadMessage =
                        IF outcome = "rejected"
                        THEN "Pose data unavailable, will extract from video..."
                        ELSE @],
                     status, n)
          [] pc = "fetch" /\ outcome = "resolved" -> loadVideo(l, status, n, i)
          [] pc = "fetch" /\ outcome = "rejected" ->
               After([goTo(l, i, "fallback") EXCEPT
                        !.videoLoadMessage = "Loading from local cache...",
                        !.videoLoadProgress = Undefined],
                     "Loading sample (local)...", n)
          [] pc = "fallback" /\ outcome = "resolved" -> loadVideo(l, status, n, i)
          [] pc = "metadata" /\ outcome = "resolved" ->
               After([goTo(l, i, "extraction") EXCEPT
                        !.videoLoadMessage = "Processing video..."],
                     status, n)
          [] pc = "extraction" /\ outcome = "resolved" ->
               After(clearLoadingState(goTo(l, i, "done")), VideoLoaded, n)
          [] outcome = "aborted" -> cancelled
          [] OTHER -> failed

\* The progress callback of the download of load i.
onProgress(l, percent) == [l EXCEPT !.videoLoadProgress = percent]

\* The cleanup of the unmount effect: the controller in the ref is aborted.
unmountCleanup(l) == [abortCurrent(l) EXCEPT !.mounted = FALSE]

-----------------------------------------------------------------------------
(* Part 7: the speed-smoothing pass (src/unnamed/part_001, lines 367-558:    *)
(* computeRawSpeeds, median, smoothSpeeds, computeFrameSpeeds).  Video times *)
(* are in hundredths of a second and speeds in hundredths of a metre per     *)
(* second; a smoothed speed is a fraction num/den of such units.  A frame    *)
(* carries, in place of its keypoints, whether buildSkeletonFromFrame        *)
(* succeeds on them and what getWristVelocityFromPrev returns for the frame  *)
(* and its predecessor.                                                      *)

\* A pose track holds up to this many frames.
MaxTrack == 6

\* The most frames of a track without skeleton or with an elapsed time
\* outside (0, 0.5].
MaxIrregular == 1

\* The largest elapsed time between frames that gives a speed: 0.5 s.
MaxDelta == 50

\* null in the array of raw speeds.
NullSpeed == Undefined

\* frame.angles is undefined.
NoAngles == [kind |-> "undefined"]

\* The angles a frame may already have.
SomeAngles == [spineAngle |-> 10, armToSpineAngle |-> 20, armToVerticalAngle |-> 30]

\* The frames a track is made of, each by the time elapsed since the frame
\* before it (the first frame is at that time): a frame of fast movement; a
\* frame at rest, exactly 0.5 s later, that has angles already; a frame after
\* a gap of 0.51 s; a frame that repeats the time of the one before; a frame
\* whose keypoints give no skeleton.
FrameKinds ==
    {[delta |-> 3, skeleton |-> TRUE, velocity |-> 200, angles |-> NoAngles],
     [delta |-> MaxDelta, skeleton |-> TRUE, velocity |-> 0, angles |-> SomeAngles],
     [delta |-> MaxDelta + 1, skeleton |-> TRUE, velocity |-> 201, angles |-> NoAngles],
     [delta |-> 0, skeleton |-> TRUE, velocity |-> 201, angles |-> NoAngles],
     [delta |-> 3, skeleton |-> FALSE, velocity |-> 201, angles |-> NoAngles]}

\* A PoseTrackFrame.
Frame(videoTime, kind) ==
    [videoTime |-> videoTime, skeleton |-> kind.skeleton,
     velocity |-> kind.velocity, angles |-> kind.angles]

\* The configurations computeFrameSpeeds is called with.
SpeedConfigs == [windowSize : {1, 3, 5}, smoothingMethod : {"median", "mean"}]

\* DEFAULT_CONFIG
DEFAULT_CONFIG == [windowSize |-> 3, smoothingMethod |-> "median"]

\* computeRawSpeeds(frames, config): the speed of frame i, null for the first
\* frame, for a frame without skeleton or after one, and for an elapsed time
\* outside (0, 0.5].
computeRawSpeeds_zeroOnBadDelta(frames) ==
    [i \in 1..Len(frames) |->
        IF Len(frames) < 2 \/ i = 1 THEN NullSpeed
        ELSE IF ~frames[i - 1].skeleton \/ ~frames[i].skeleton THEN NullSpeed
        ELSE LET dtRaw == frames[i].videoTime - frames[i - 1].videoTime
             IN  IF dtRaw <= 0 \/ dtRaw > MaxDelta THEN 0
                 ELSE frames[i].velocity]

computeRawSpeeds(frames) ==
    [i \in 1..Len(frames) |->
        IF Len(frames) < 2 \/ i = 1 THEN NullSpeed
        ELSE IF ~frames[i - 1].skeleton \/ ~frames[i].skeleton THEN NullSpeed
        ELSE LET dtRaw == frames[i].videoTime - frames[i - 1].videoTime
             IN  IF dtRaw <= 0 \/ dtRaw > MaxDelta THEN NullSpeed
                 ELSE frames[i].velocity]

\* [...values].sort((a, b) => a - b), by insertion.
RECURSIVE Insert(_, _)
Insert(sorted, v) ==
    IF sorted = <<>> THEN <<v>>
    ELSE IF v <= Head(sorted) THEN <<v>> \o sorted
    ELSE <<Head(sorted)>> \o Insert(Tail(sorted), v)

RECURSIVE Sort(_)
Sort(values) ==
    IF values = <<>> THEN <<>>
    ELSE Insert(Sort(Tail(values)), Head(values))

\* A fraction.
Fraction(num, den) == [num |-> num, den |-> den]

\* median(values); indices here start at 1, so sorted[mid] of the source is
\* sorted[mid + 1].
median_ofUnsorted(values) ==
    IF Len(values) = 0 THEN Fraction(0, 1)
    ELSE LET sorted == values
             mid == Len(sorted) \div 2
         IN  IF Len(sorted) % 2 = 0
             THEN Fraction(sorted[mid] + sorted[mid + 1], 2)
             ELSE Fraction(sorted[mid + 1], 1)

median(values) ==
    IF Len(values) = 0 THEN Fraction(0, 1)
    ELSE LET sorted == Sort(values)
             mid == Len(sorted) \div 2
         IN  IF Len(sorted) % 2 = 0
             THEN Fraction(sorted[mid] + sorted[mid + 1], 2)
             ELSE Fraction(sorted[mid + 1], 1)

\* windowValues.reduce((a, b) => a + b, 0)
RECURSIVE Sum(_)
Sum(values) == IF values = <<>> THEN 0 ELSE Head(values) + Sum(Tail(values))

\* The inner loop of smoothSpeeds from index j to windowEnd: the speeds of the
\* window that are not null, in order.
RECURSIVE windowValues(_, _, _)
windowValues(rawSpeeds, j, windowEnd) ==
    IF j > windowEnd THEN <<>>
    ELSE IF rawSpeeds[j] # NullSpeed
         THEN <<rawSpeeds[j]>> \o windowValues(rawSpeeds, j + 1, windowEnd)
         ELSE windowValues(rawSpeeds, j + 1, windowEnd)

\* smoothSpeeds(rawSpeeds, windowSize, method); indices start at 1.
smoothSpeeds(rawSpeeds, windowSize, method) ==
    LET halfWindow == windowSize \div 2
    IN  [i \in 1..Len(rawSpeeds) |->
            LET windowStart == IF i - halfWindow > 1 THEN i - halfWindow ELSE 1
                windowEnd == IF i + halfWindow < Len(rawSpeeds)
                             THEN i + halfWindow ELSE Len(rawSpeeds)
                values == windowValues(rawSpeeds, windowStart, windowEnd)
            IN  IF Len(values) = 0 THEN Fraction(0, 1)
                ELSE IF method = "median" THEN median(values)
                ELSE Fraction(Sum(values), Len(values))]

\* Math.round(x * 100) / 100 of a speed that is not negative, in hundredths:
\* the nearest whole number of hundredths, a half rounding up.
RoundToHundredths(x) == (2 * x.num + x.den) \div (2 * x.den)

\* angles with wristSpeed set, its other fields kept.
WithWristSpeed(angles, speed) ==
    [f \in DOMAIN angles \cup {"wristSpeed"} |->
        IF f = "wristSpeed" THEN speed ELSE angles[f]]

\* frames[i].angles ?? { spineAngle: 0, armToSpineAngle: 0, armToVerticalAngle: 0 }
anglesOrNew(frame) ==
    IF frame.angles = NoAngles
    THEN [spineAngle |-> 0, armToSpineAngle |-> 0, armToVerticalAngle |-> 0]
    ELSE frame.angles

\* computeFrameSpeeds(frames, config): the frames with angles.wristSpeed set.
computeFrameSpeeds_replacesAngles(frames, config) ==
    LET rawSpeeds == computeRawSpeeds(frames)
        smoothedSpeeds == smoothSpeeds(rawSpeeds, config.windowSize, config.smoothingMethod)
    IN  [i \in 1..Len(frames) |->
            [frames[i] EXCEPT !.angles =
                WithWristSpeed([spineAngle |-> 0, armToSpineAngle |-> 0,
                                armToVerticalAngle |-> 0],
                               RoundToHundredths(smoothedSpeeds[i]))]]

computeFrameSpeeds(frames, config) ==
    LET rawSpeeds == computeRawSpeeds(frames)
        smoothedSpeeds == smoothSpeeds(rawSpeeds, config.windowSize, config.smoothingMethod)
    IN  [i \in 1..Len(frames) |->
            [frames[i] EXCEPT !.angles =
                WithWristSpeed(anglesOrNew(frames[i]),
                               RoundToHundredths(smoothedSpeeds[i]))]]

\* The frames that have no skeleton or an elapsed time outside (0, 0.5], the
\* conditions of the early exits of computeRawSpeeds; the first frame's time
\* is taken from the start of the video.
Irregular(frames) ==
    {i \in 1..Len(frames) :
        LET dtRaw == IF i = 1 THEN frames[i].videoTime
                     ELSE frames[i].videoTime - frames[i - 1].videoTime
        IN  ~frames[i].skeleton \/ dtRaw <= 0 \/ dtRaw > MaxDelta}

\* A pose track before the pass.
NewTrack == [frames |-> <<>>, computed |-> FALSE]

-----------------------------------------------------------------------------
(* Part 8: the depth of a squat from the ear's height                        *)
(* (src/src/utils/depthCalculation.ts). A normalized Y is in thousandths of  *)
(* the frame height; JavaScript numbers are exact fractions here.            *)

\* How far outside [0, 1] a normalized ear Y may lie, in thousandths.
EarMargin == 100

\* const STANDING_EAR_Y = 0.15, in thousandths.
STANDING_EAR_Y == 150

\* const SQUAT_RANGE = 0.5, in thousandths.
SQUAT_RANGE == 500

\* The values of normalizedEarY.
EarYs == (0 - EarMargin)..(1000 + EarMargin)

\* How far the ear moves from one frame to the next, in thousandths.
EarSteps == {0 - 100, 0 - 7, 0 - 1, 1, 7, 100}

\* Math.round(x): the nearest integer, a half rounding up (also below zero).
MathRound(x) == (2 * x.num + x.den) \div (2 * x.den)

\* Math.max and Math.min of two integers.
MathMax(a, b) == IF a >= b THEN a ELSE b

MathMin(a, b) == IF a <= b THEN a ELSE b

\* calculateDepthFromNormalizedY(normalizedEarY)
calculateDepthFromNormalizedY_unclamped(normalizedEarY) ==
    LET depthRaw == Fraction((normalizedEarY - STANDING_EAR_Y) * 100, SQUAT_RANGE)
    IN  MathRound(depthRaw)

calculateDepthFromNormalizedY(normalizedEarY) ==
    LET depthRaw == Fraction((normalizedEarY - STANDING_EAR_Y) * 100, SQUAT_RANGE)
    IN  MathMax(0, MathMin(100, MathRound(depthRaw)))

\* A measurement of the depth at an ear height.
Measured(normalizedEarY) ==
    [normalizedEarY |-> normalizedEarY,
     depth |-> calculateDepthFromNormalizedY(normalizedEarY)]

\* The measurement of a person standing.
NewSquat == Measured(STANDING_EAR_Y)

-----------------------------------------------------------------------------
(* Part 9: the placement of the skeleton canvas over the video               *)
(* (src/src/hooks/utils/hudUtils.ts, lines 155-300, and syncCanvasToVideo of *)
(* src/src/hooks/useExerciseAnalyzer.tsx). Lengths are exact fractions of a  *)
(* pixel, kept in lowest terms with a positive denominator.                  *)

\* The longest side of the container.
MaxSide == 3

RECURSIVE GCD(_, _)
GCD(a, b) == IF b = 0 THEN a ELSE GCD(b, a % b)

Abs(n) == IF n < 0 THEN 0 - n ELSE n

\* num / den in lowest terms.
Reduced(num, den) ==
    LET g == GCD(Abs(num), Abs(den))
        sign == IF den < 0 THEN 0 - 1 ELSE 1
    IN  Fraction((sign * num) \div g, (sign * den) \div g)

\* A whole number as a fraction.
Whole(n) == Fraction(n, 1)

\* a + b, a - b, a * b, a / b, a > b, -a and Math.max(a, b) on numbers.
Plus(a, b) == Reduced(a.num * b.den + b.num * a.den, a.den * b.den)

Minus(a, b) == Reduced(a.num * b.den - b.num * a.den, a.den * b.den)

Times(a, b) == Reduced(a.num * b.num, a.den * b.den)

Over(a, b) == Reduced(a.num * b.den, a.den * b.num)

Greater(a, b) == a.num * b.den > b.num * a.den

Negated(a) == Fraction(0 - a.num, a.den)

Larger(a, b) == IF Greater(b, a) THEN b ELSE a

\* crop: CropRegion | null is null.
NoCrop == [kind |-> "null"]

\* CanvasPlacement.objectPosition is undefined.
NoObjectPosition == [kind |-> "undefined"]

\* The native sizes of the videos: landscape, portrait and square.
Videos ==
    {[videoWidth |-> 8, videoHeight |-> 4],
     [videoWidth |-> 4, videoHeight |-> 8],
     [videoWidth |-> 4, videoHeight |-> 4]}

\* The rendered sizes of the video element.
Containers == [width : 1..MaxSide, height : 1..MaxSide]

\* The offsets of the video element in its container.
Offsets == {[x |-> 0, y |-> 0], [x |-> 1, y |-> 2]}

\* The crop regions of a video: the whole frame, and its half-sized regions
\* at the corners and in the middle.
Crops(video) ==
    {[x |-> 0, y |-> 0, width |-> video.videoWidth, height |-> video.videoHeight]}
    \cup
    {[x |-> (k * video.videoWidth) \div 4, y |-> (k * video.videoHeight) \div 4,
      width |-> video.videoWidth \div 2, height |-> video.videoHeight \div 2] :
        k \in 0..2}
    \cup
    {[x |-> video.videoWidth \div 2, y |-> 0,
      width |-> video.videoWidth \div 2, height |-> video.videoHeight \div 2]}

\* calculateNormalModePlacement(video, container, videoOffset)
calculateNormalModePlacement_fitsWidth(video, container, videoOffset) ==
    LET videoAspect == Over(Whole(video.videoWidth), Whole(video.videoHeight))
        renderedWidth == Whole(container.width)
        renderedHeight == Over(Whole(container.width), videoAspect)
        offsetY == Over(Minus(Whole(container.height), renderedHeight), Whole(2))
    IN  [width |-> renderedWidth,
         height |-> renderedHeight,
         left |-> Plus(Whole(videoOffset.x), Whole(0)),
         top |-> Plus(Whole(videoOffset.y), offsetY),
         objectPosition |-> NoObjectPosition]

calculateNormalModePlacement(video, container, videoOffset) ==
    LET videoAspect == Over(Whole(video.videoWidth), Whole(video.videoHeight))
        containerAspect == Over(Whole(container.width), Whole(container.height))
        wider == Greater(videoAspect, containerAspect)
        renderedWidth == IF wider THEN Whole(container.width)
                         ELSE Times(Whole(container.height), videoAspect)
        renderedHeight == IF wider THEN Over(Whole(container.width), videoAspect)
                          ELSE Whole(container.height)
        offsetX == IF wider THEN Whole(0)
                   ELSE Over(Minus(Whole(container.width), renderedWidth), Whole(2))
        offsetY == IF wider
                   THEN Over(Minus(Whole(container.height), renderedHeight), Whole(2))
                   ELSE Whole(0)
    IN  [width |-> renderedWidth,
         height |-> renderedHeight,
         left |-> Plus(Whole(videoOffset.x), offsetX),
         top |-> Plus(Whole(videoOffset.y), offsetY),
         objectPosition |-> NoObjectPosition]

\* const coverScale = Math.max(scaleX, scaleY)
coverScale(video, container) ==
    Larger(Over(Whole(container.width), Whole(video.videoWidth)),
           Over(Whole(container.height), Whole(video.videoHeight)))

\* cropCenterX and cropCenterY: the crop's centre as a fraction of the video.
cropCenter(video, crop) ==
    [x |-> Over(Plus(Whole(crop.x), Over(Whole(crop.width), Whole(2))),
                Whole(video.videoWidth)),
     y |-> Over(Plus(Whole(crop.y), Over(Whole(crop.height), Whole(2))),
                Whole(video.videoHeight))]

\* calculateZoomedModePlacement(video, container, videoOffset, crop); the
\* objectPosition string is kept as its two percentages.
calculateZoomedModePlacement(video, container, videoOffset, crop) ==
    LET scaledWidth == Times(Whole(video.videoWidth), coverScale(video, container))
        scaledHeight == Times(Whole(video.videoHeight), coverScale(video, container))
        cropCenterX == cropCenter(video, crop).x
        cropCenterY == cropCenter(video, crop).y
        overflowX == Minus(scaledWidth, Whole(container.width))
        overflowY == Minus(scaledHeight, Whole(container.height))
        offsetX == Times(Negated(overflowX), cropCenterX)
        offsetY == Times(Negated(overflowY), cropCenterY)
    IN  [width |-> scaledWidth,
         height |-> scaledHeight,
         left |-> Plus(Whole(videoOffset.x), offsetX),
         top |-> Plus(Whole(videoOffset.y), offsetY),
         objectPosition |-> [x |-> Times(cropCenterX, Whole(100)),
                             y |-> Times(cropCenterY, Whole(100))]]

\* calculateCanvasPlacement(video, container, videoOffset, isZoomed, crop)
calculateCanvasPlacement(video, container, videoOffset, isZoomed, crop) ==
    IF isZoomed /\ crop # NoCrop
    THEN calculateZoomedModePlacement(video, container, videoOffset, crop)
    ELSE calculateNormalModePlacement(video, container, videoOffset)

\* syncCanvasToVideo(isZoomed, crop): the placement is applied to the canvas.
syncCanvasToVideo(c, isZoomed, crop) ==
    [c EXCEPT !.placement =
        calculateCanvasPlacement(c.video, c.container, c.videoOffset, isZoomed, crop)]

\* The canvas over a landscape video in a square container, zoom off.
NewCanvas ==
    syncCanvasToVideo([video |-> [videoWidth |-> 8, videoHeight |-> 4],
                       container |-> [width |-> 1, height |-> 1],
                       videoOffset |-> [x |-> 0, y |-> 0],
                       isCropEnabled |-> FALSE,
                       cropRegion |-> NoCrop,
                       placement |-> NoObjectPosition],
                      FALSE, NoCrop)

-----------------------------------------------------------------------------
(* Part 10: the stable crop region of a video (src/unnamed/part_001, lines   *)
(* 1-211: calculateBoundingBox, mergeBoundingBoxes,                          *)
(* calculateStableCropRegion). Coordinates are pixels, scores hundredths.    *)

\* The most frames sampled for the crop.
MaxSample == 2

\* calculateBoundingBox found no confident keypoint.
NoBox == [kind |-> "null"]

\* minConfidence = 0.3, in hundredths.
minConfidence == 30

\* widthPadding = 1.4, heightPadding = 1.3, targetAspect = 3 / 4 and the
\* 0.85 of the height a crop may take.
widthPadding == Fraction(7, 5)

heightPadding == Fraction(13, 10)

targetAspect == Fraction(3, 4)

maxCropFraction == Fraction(17, 20)

\* The sizes of the videos crops are calculated for.
CropVideos ==
    {[videoWidth |-> 20, videoHeight |-> 10],
     [videoWidth |-> 8, videoHeight |-> 20]}

\* The keypoints of the sampled frames.
Keypoints == [x : {2, 18}, y : {3, 10}, score : {20, 90}]

\* The keypoint arrays of the sampled frames: none, one keypoint, or two far
\* apart.
SampleFrames ==
    {<<>>}
    \cup {<<kp>> : kp \in Keypoints}
    \cup {<<[x |-> 2, y |-> 3, score |-> 90], [x |-> 18, y |-> 10, score |-> 90]>>}

\* The least and the greatest of a set of integers that is not empty.
MinOf(S) == CHOOSE v \in S : \A w \in S : v <= w

MaxOf(S) == CHOOSE v \in S : \A w \in S : v >= w

\* calculateBoundingBox(keypoints)
calculateBoundingBox(keypoints) ==
    LET confidentKeypoints ==
            {i \in 1..Len(keypoints) : keypoints[i].score > minConfidence}
    IN  IF confidentKeypoints = {} THEN NoBox
        ELSE [minX |-> MinOf({keypoints[i].x : i \in confidentKeypoints}),
              minY |-> MinOf({keypoints[i].y : i \in confidentKeypoints}),
              maxX |-> MaxOf({keypoints[i].x : i \in confidentKeypoints}),
              maxY |-> MaxOf({keypoints[i].y : i \in confidentKeypoints})]

\* mergeBoundingBoxes(boxes), for a set of boxes.
mergeBoundingBoxes(boxes) ==
    IF boxes = {} THEN NoBox
    ELSE [minX |-> MinOf({box.minX : box \in boxes}),
          minY |-> MinOf({box.minY : box \in boxes}),
          maxX |-> MaxOf({box.maxX : box \in boxes}),
          maxY |-> MaxOf({box.maxY : box \in boxes})]

\* The boxes calculateStableCropRegion collects from the frames.
collectBoxes(frames) ==
    {calculateBoundingBox(frames[i]) :
        i \in {j \in 1..Len(frames) :
                  Len(frames[j]) > 0 /\ calculateBoundingBox(frames[j]) # NoBox}}

\* paddedWidth / paddedHeight > targetAspect, where a division by zero gives
\* Infinity (greater) or, for 0 / 0, NaN (not greater).
widerThanTarget(paddedWidth, paddedHeight) ==
    IF paddedHeight.num = 0 THEN paddedWidth.num > 0
    ELSE Greater(Over(paddedWidth, paddedHeight), targetAspect)

\* A crop size cut down to a height, and to a width, at the target aspect.
cappedToHeight(size, height) ==
    IF Greater(size.cropHeight, height)
    THEN [cropHeight |-> height, cropWidth |-> Times(height, targetAspect)]
    ELSE size

cappedToWidth(size, width) ==
    IF Greater(size.cropWidth, width)
    THEN [cropWidth |-> width, cropHeight |-> Over(width, targetAspect)]
    ELSE size

\* cropWidth and cropHeight of calculateStableCropRegion before the crop is
\* placed: fitted to the padded person, capped at 85% of the video height,
\* then at the video width and at the video height.
cropSize(unionBox, videoWidth, videoHeight) ==
    LET personWidth == unionBox.maxX - unionBox.minX
        personHeight == unionBox.maxY - unionBox.minY
        paddedWidth == Times(Whole(personWidth), widthPadding)
        paddedHeight == Times(Whole(personHeight), heightPadding)
        fitted == IF widerThanTarget(paddedWidth, paddedHeight)
                  THEN [cropWidth |-> paddedWidth,
                        cropHeight |-> Over(paddedWidth, targetAspect)]
                  ELSE [cropHeight |-> paddedHeight,
                        cropWidth |-> Times(paddedHeight, targetAspect)]
        maxCropHeight == Times(Whole(videoHeight), maxCropFraction)
    IN  cappedToHeight(cappedToWidth(cappedToHeight(fitted, maxCropHeight),
                                     Whole(videoWidth)),
                       Whole(videoHeight))

\* Math.max(0, Math.min(wanted, limit)) on numbers.
Smaller(a, b) == IF Greater(a, b) THEN b ELSE a

clamp(wanted, limit) == Larger(Whole(0), Smaller(wanted, limit))

\* cropX and cropY: the crop centred on the person and clamped to the video.
cropOrigin(unionBox, size, videoWidth, videoHeight) ==
    LET personCenterX == Over(Whole(unionBox.minX + unionBox.maxX), Whole(2))
        personCenterY == Over(Whole(unionBox.minY + unionBox.maxY), Whole(2))
    IN  [cropX |-> clamp(Minus(personCenterX, Over(size.cropWidth, Whole(2))),
                         Minus(Whole(videoWidth), size.cropWidth)),
         cropY |-> clamp(Minus(personCenterY, Over(size.cropHeight, Whole(2))),
                         Minus(Whole(videoHeight), size.cropHeight))]

\* calculateStableCropRegion(frames, videoWidth, videoHeight)
calculateStableCropRegion(frames, videoWidth, videoHeight) ==
    LET boxes == collectBoxes(frames)
        unionBox == mergeBoundingBoxes(boxes)
        size == cropSize(unionBox, videoWidth, videoHeight)
        origin == cropOrigin(unionBox, size, videoWidth, videoHeight)
    IN  IF boxes = {} THEN NoCrop
        ELSE [x |-> MathRound(origin.cropX),
              y |-> MathRound(origin.cropY),
              width |-> MathRound(size.cropWidth),
              height |-> MathRound(size.cropHeight)]

\* Crop detection before a frame is sampled.
NewStable ==
    [videoWidth |-> 20, videoHeight |-> 10, frames |-> <<>>,
     calculated |-> FALSE, cropRegion |-> NoCrop]

-----------------------------------------------------------------------------
(* Part 11: the metadata wait of loadVideoSafely                             *)
(* (src/src/hooks/useExerciseAnalyzer.tsx, lines 302-389; the same code is   *)
(* in src/unnamed/part_000, lines 124-211).  A wait is the promise made in   *)
(* step 4 with the listeners and the timer its executor registers.           *)

\* loadVideoSafely is called up to this many times.
MaxWaits == 3

\* Events reach a wait that has no listener for them up to this many times.
MaxIgnored == 2

\* The three listeners the executor registers.
WaitListeners == {"loadedmetadata", "error", "abort"}

\* videoElement.error when the error event fires: null, or a MediaError with
\* one of the four codes.
MediaErrors ==
    {"null", "MEDIA_ERR_ABORTED", "MEDIA_ERR_NETWORK", "MEDIA_ERR_DECODE",
     "MEDIA_ERR_SRC_NOT_SUPPORTED"}

\* The name of the DOMException an abort rejects with.
AbortError == "AbortError"

TimeoutError == "Timeout loading video metadata"

\* The promise has not been rejected.
NoReason == "<none>"

\* Nothing has happened to the wait yet.
NoEvent == "<none>"

\* Before loadVideoSafely is called.
NewWait ==
    [entered |-> 0,
     promise |-> "none",
     reason |-> NoReason,
     listeners |-> {},
     timer |-> FALSE,
     aborted |-> FALSE,
     settled |-> 0,
     syncRequests |-> 0,
     first |-> NoEvent,
     ignored |-> 0]

\* resolve() or reject(reason): the promise takes the first settlement and
\* ignores the others; settled counts the calls.
settle(w, promise, reason) ==
    [w EXCEPT !.settled = @ + 1,
              !.promise = IF @ = "pending" THEN promise ELSE @,
              !.reason = IF w.promise = "pending" THEN reason ELSE @]

\* cleanup(): the timer is cleared and the three listeners are removed.
cleanup_keepsTimer(w) == [w EXCEPT !.listeners = {}]

cleanup(w) == [w EXCEPT !.timer = FALSE, !.listeners = {}]

\* The callback of setTimeout(..., 10000).
onTimeout(w) == settle(cleanup(w), "rejected", TimeoutError)

\* handleLoadedMetadata: it also asks for an animation frame in which the
\* canvas is synced to the video.
handleLoadedMetadata(w) ==
    settle([cleanup(w) EXCEPT !.syncRequests = @ + 1], "resolved", NoReason)

\* The message handleError rejects with.
errorMessage(mediaError) ==
    CASE mediaError = "MEDIA_ERR_ABORTED" -> "Video load was aborted"
      [] mediaError = "MEDIA_ERR_NETWORK" -> "Network error loading video"
      [] mediaError = "MEDIA_ERR_DECODE" -> "Video format could not be decoded"
      [] mediaError = "MEDIA_ERR_SRC_NOT_SUPPORTED" -> "Video format not supported"
      [] OTHER -> "Failed to load video"

handleError(w, mediaError) == settle(cleanup(w), "rejected", errorMessage(mediaError))

handleAbort(w) == settle(cleanup(w), "rejected", AbortError)

\* The executor of the promise, called with the signal of the load: with the
\* signal aborted it rejects and returns; else it arms the timer and adds the
\* three listeners.
waitForMetadata(w, aborted) ==
    LET made == [w EXCEPT !.entered = @ + 1,
                          !.promise = "pending",
                          !.reason = NoReason,
                          !.listeners = {},
                          !.timer = FALSE,
                          !.aborted = aborted,
                          !.settled = 0]
    IN  IF aborted THEN settle(made, "rejected", AbortError)
        ELSE [made EXCEPT !.timer = TRUE, !.listeners = WaitListeners]

\* The browser delivers an event of the type to the wait: a listener added
\* with { once: true } is removed before it is called; without a listener of
\* the type nothing runs.
deliver(w, type, mediaError) ==
    IF type \notin w.listeners THEN w
    ELSE LET called == [w EXCEPT !.listeners = @ \ {type}]
         IN  CASE type = "loadedmetadata" -> handleLoadedMetadata(called)
               [] type = "error" -> handleError(called, mediaError)
               [] type = "abort" -> handleAbort(called)

-----------------------------------------------------------------------------
(* Part 12: the playback effect of useExerciseAnalyzer                       *)
(* (src/src/hooks/useExerciseAnalyzer.tsx, lines 853-997): the play, pause,  *)
(* ended and seeked listeners and the per-frame callback with its throttled  *)
(* rep/position sync.  Callback timestamps are in milliseconds.              *)

\* const REP_SYNC_INTERVAL_MS = 1000.
REP_SYNC_INTERVAL_MS == 1000

\* The milliseconds between the timestamps of two frame callbacks that
\* follow one another (a pause may lie between them).
FrameGaps == {400, 600}

\* Frame callbacks are followed up to this timestamp.
MaxClock == 3000

NoHandler == "none"

\* The refs and locals of the effect after the first render, before the
\* effects have run.  called and calledWith tell whether the handler that ran
\* last called repSyncHandlerRef.current, and with which video time.  The
\* fields from clock on are the record kept of the run: the timestamp of the
\* last frame callback, the timestamp of the last call made by the frame
\* callback, the handler that ran last, the time it found passed since that
\* call, and the stamp of the throttle it found.
NewSync ==
    [listening |-> "no",
     inputSession |-> FALSE,
     isPlaying |-> FALSE,
     videoFrameCallbackId |-> "null",
     lastRepSyncTime |-> 0,
     called |-> FALSE,
     calledWith |-> 0,
     clock |-> 0,
     lastThrottled |-> 0,
     handler |-> NoHandler,
     sinceThrottled |-> 0,
     stampBefore |-> 0]

\* The session effect and then the playback effect on mount, the video and
\* canvas elements present: the session is put in its ref and the four
\* listeners are added.
mountEffects(s) == [s EXCEPT !.inputSession = TRUE, !.listening = "yes"]

\* Their cleanups: the session ref is cleared, the listeners are removed and
\* the frame callback is cancelled.
unmountEffects(s) ==
    [s EXCEPT !.inputSession = FALSE, !.listening = "removed",
              !.videoFrameCallbackId = "null"]

\* handlePlay() then startVideoFrameCallback().
handlePlayWithCallback(s) ==
    [s EXCEPT !.isPlaying = TRUE, !.videoFrameCallbackId = "requested", !.called = FALSE]

\* stopVideoFrameCallback() then handlePause().
handlePauseWithCallback(s) ==
    [s EXCEPT !.videoFrameCallbackId = "null", !.isPlaying = FALSE, !.called = FALSE]

\* stopVideoFrameCallback() then handleEnded().
handleEndedWithCallback(s) ==
    [s EXCEPT !.videoFrameCallbackId = "null", !.isPlaying = FALSE, !.called = FALSE]

renderVideoFrame_noStamp(s, now, mediaTime) ==
    LET due == /\ s.inputSession /\ s.isPlaying
               /\ now - s.lastRepSyncTime >= REP_SYNC_INTERVAL_MS
    IN  [s EXCEPT !.called = due,
                  !.calledWith = IF due THEN mediaTime ELSE @,
                  !.videoFrameCallbackId = IF s.isPlaying THEN "requested" ELSE @]

\* renderVideoFrame(now, metadata): with a session and while playing, the
\* sync handler is called when now is REP_SYNC_INTERVAL_MS or more past the
\* stamp, and the stamp is set to now; the next callback is requested while
\* playing.
renderVideoFrame(s, now, mediaTime) ==
    LET due == /\ s.inputSession /\ s.isPlaying
               /\ now - s.lastRepSyncTime >= REP_SYNC_INTERVAL_MS
    IN  [s EXCEPT !.lastRepSyncTime = IF due THEN now ELSE @,
                  !.called = due,
                  !.calledWith = IF due THEN mediaTime ELSE @,
                  !.videoFrameCallbackId = IF s.isPlaying THEN "requested" ELSE @]

\* handleSeeked(): without a session it returns; else it calls the sync
\* handler with the video's current time.
handleSeeked(s, currentTime) ==
    IF ~s.inputSession THEN [s EXCEPT !.called = FALSE]
    ELSE [s EXCEPT !.called = TRUE, !.calledWith = currentTime]

\* The run of a handler as the record keeps it.
Recorded(before, after, name, now) ==
    [after EXCEPT !.handler = name,
                  !.sinceThrottled = now - before.lastThrottled,
                  !.stampBefore = before.lastRepSyncTime]

\* repSyncHandlerRef.current?.(videoTime) when the handler called it, on the
\* navigation state of a video that is at that time.
syncHandler(n, s) ==
    IF s.called THEN updateRepAndPositionFromTime(n, s.calledWith) ELSE n

-----------------------------------------------------------------------------
(* Part 13: the thumbnail Maps of analyzerReducer as JavaScript objects      *)
(* (src/src/hooks/useAnalyzerState.ts, lines 322-346).  An inner Map (the    *)
(* positions of one rep) is an object named by the order in which it was     *)
(* made; heap[id] is what it holds now.  An outer Map (repThumbnails) is     *)
(* written as the function from rep numbers to the inner Maps it refers to:  *)
(* every case makes a new one, so its identity is not followed.              *)

\* Inner Maps are made up to this many.
MaxObjects == 3

ThumbnailReps == {1, 2}

ThumbnailPositions == {"top", "bottom"}

\* The PositionCandidate objects an action may bring.
ThumbnailCandidates == {"first", "second"}

\* The positions Maps a SET_REP_THUMBNAILS action may bring.
PositionMaps ==
    {EmptyMap} \cup {MapSet(EmptyMap, p, c) : p \in ThumbnailPositions, c \in ThumbnailCandidates}

\* The actions on the thumbnails.
ThumbnailActions ==
    [type : {"ADD_THUMBNAIL"}, repNum : ThumbnailReps,
     position : ThumbnailPositions, candidate : ThumbnailCandidates]
    \cup [type : {"SET_REP_THUMBNAILS"}, repNum : ThumbnailReps, positions : PositionMaps]
    \cup [type : {"CLEAR_THUMBNAILS"}]

\* The thumbnails of the initial state, and of no call yet: given and
\* givenHeap are the outer Map of the state passed to the last call of the
\* reducer and the heap as it was when the call was made.
NewThumbs ==
    [heap |-> <<>>,
     repThumbnails |-> EmptyMap,
     given |-> EmptyMap,
     givenHeap |-> <<>>,
     type |-> "none"]

\* What an outer Map holds: for each rep what its inner Map holds now.
Contents(objects, repThumbnails) ==
    [repNum \in DOMAIN repThumbnails |-> objects[repThumbnails[repNum]]]

\* case 'ADD_THUMBNAIL': newThumbnails is a new outer Map with the entries of
\* the old; repMap is the inner Map the old one holds for the rep, the same
\* object, or a new Map; repMap.set(...) writes into that object.
ADD_THUMBNAIL(t, action) ==
    IF action.repNum \in DOMAIN t.repThumbnails
    THEN LET id == t.repThumbnails[action.repNum]
         IN  [t EXCEPT !.heap[id] = MapSet(@, action.position, action.candidate),
                       !.repThumbnails = MapSet(@, action.repNum, id)]
    ELSE LET id == Len(t.heap) + 1
         IN  [t EXCEPT !.heap = Append(@, MapSet(EmptyMap, action.position, action.candidate)),
                       !.repThumbnails = MapSet(@, action.repNum, id)]

\* case 'SET_REP_THUMBNAILS': the new outer Map refers to action.positions,
\* a Map the caller made.
SET_REP_THUMBNAILS(t, action) ==
    [t EXCEPT !.heap = Append(@, action.positions),
              !.repThumbnails = MapSet(@, action.repNum, Len(t.heap) + 1)]

\* case 'CLEAR_THUMBNAILS': a new, empty outer Map.
CLEAR_THUMBNAILS(t, action) ==
    [t EXCEPT !.repThumbnails = EmptyMap]

\* Whether the case makes an inner Map.
MakesMap(t, action) ==
    \/ action.type = "SET_REP_THUMBNAILS"
    \/ action.type = "ADD_THUMBNAIL" /\ action.repNum \notin DOMAIN t.repThumbnails

\* analyzerReducer(state, action) on the thumbnails, the state given noted.
reduceThumbnails(t, action) ==
    LET noted == [t EXCEPT !.given = t.repThumbnails, !.givenHeap = t.heap,
                           !.type = action.type]
    IN  CASE action.type = "ADD_THUMBNAIL" -> ADD_THUMBNAIL(noted, action)
          [] action.type = "SET_REP_THUMBNAILS" -> SET_REP_THUMBNAILS(noted, action)
          [] action.type = "CLEAR_THUMBNAILS" -> CLEAR_THUMBNAILS(noted, action)

-----------------------------------------------------------------------------
(* The initial state, and the calls made on the analyzer *)

\* Nothing has been returned yet, and the caller holds nothing.
NoHeld == [kind |-> "none"]

EmptyHeap == [r \in {} |-> <<>>]

Init ==
    /\ exercise \in Exercises
    /\ an = NewAnalyzer(exercise.initialPhase)
    /\ last = [op |-> "constructor"]
    /\ dwell = 0
    /\ heap = EmptyHeap
    /\ held = NoHeld
    /\ hook = NewHook
    /\ pipelineReps = 0
    /\ failRun = 0
    /\ lastFrame = NotAFrame(NewHook)
    /\ reducerState = initialAnalyzerState
    /\ detection = NewDetection
    /\ subscription = Subscribed(NewDetection)
    /\ detectionCall = NoCall
    /\ override = NoOverride
    /\ nav = NewNavigation
    /\ loader = NewLoader
    /\ track = NewTrack
    /\ squat = NewSquat
    /\ canvas = NewCanvas
    /\ stable = NewStable
    /\ session = NewSession
    /\ wait = NewWait
    /\ sync = NewSync
    /\ thumbnails = NewThumbs

\* The initial state outside the analyzer, which alone reads the exercise:
\* the exercise is one whose reset restores the phase.
InitOutsideAnalyzer == Init /\ exercise.resetRestoresPhase

\* processFrame counts the frame it was given into the current phase and into
\* the exercise's own metrics.
CountFrame ==
    /\ an.framesInPhase < MaxFrames
    /\ an' = [an EXCEPT !.framesInPhase = asFrameCount(@ + 1),
                        !.exerciseState = "tracking"]
    /\ last' = [op |-> "countFrame"]
    /\ dwell' = Bump(dwell)
    /\ UNCHANGED <<exercise, heldVars, outsideAnalyzer>>

\* processFrame leaves the current phase once canTransition() allows it.
CallTransitionTo ==
    /\ canTransition(an)
    /\ an' = transitionTo(an, NextPhase(an.phase))
    /\ last' = [op |-> "transitionTo", newPhase |-> NextPhase(an.phase),
                framesBefore |-> an.framesInPhase]
    /\ dwell' = 0
    /\ UNCHANGED <<exercise, heldVars, outsideAnalyzer>>

\* processFrame stores the frame as the current phase's peak when it is a better
\* candidate than the one stored.
StorePeakCall(phase, peak) ==
    /\ an' = storePeak(an, phase, peak)
    /\ last' = [op |-> "storePeak", phase |-> phase, peak |-> peak,
                replaced |-> getPeak(an, phase)]
    /\ UNCHANGED <<exercise, dwell, heldVars, outsideAnalyzer>>

CallStorePeak ==
    \E phase \in {an.phase} : \E peak \in PeaksFor(phase) : StorePeakCall(phase, peak)

\* A call of completeRep(): the instance and the record of the call.
CompleteRepCall ==
    /\ an.repCount < MaxReps
    /\ LET r == completeRep(an)
       IN  /\ an' = r.self
           /\ last' = [op |-> "completeRep",
                       peaksBefore |-> an.currentRepPeaks,
                       repPositions |-> r.repPositions,
                       repQuality |-> r.repQuality]
    /\ UNCHANGED <<exercise, dwell, outsideAnalyzer>>

CallCompleteRep == CompleteRepCall /\ UNCHANGED heldVars

\* A call of reset(): the instance and the record of the call.
ResetCall ==
    /\ an' = reset(an, exercise)
    /\ last' = [op |-> "reset", before |-> an, hookSaw |-> resetBase(an)]
    /\ UNCHANGED <<exercise, dwell, outsideAnalyzer>>

CallReset == ResetCall /\ UNCHANGED heldVars

\* The getters, and canTransition(), read the instance and return.
CallGetters ==
    /\ last' = [op |-> "getters",
                phase |-> getPhase(an),
                repCount |-> getRepCount(an),
                lastRepQuality |-> getLastRepQuality(an),
                canTransition |-> canTransition(an)]
    /\ UNCHANGED <<exercise, an, dwell, heldVars, outsideAnalyzer>>

Next ==
    \/ CountFrame
    \/ CallTransitionTo
    \/ CallStorePeak
    \/ CallCompleteRep
    \/ CallReset
    \/ CallGetters

Spec == Init /\ [][Next]_vars

\* A call of completeRep() in which the exercise's scorer throws: the
\* exception passes through completeRep() and processFrame to the caller, and
\* the instance stays in use.
CallCompleteRepThrown ==
    /\ an.repCount < MaxReps
    /\ an' = completeRepThrown(an)
    /\ last' = [op |-> "completeRepThrown", before |-> an]
    /\ UNCHANGED <<exercise, dwell, heldVars, outsideAnalyzer>>

NextScorer ==
    \/ CountFrame
    \/ CallTransitionTo
    \/ CallStorePeak
    \/ CallCompleteRep
    \/ CallCompleteRepThrown
    \/ CallReset
    \/ CallGetters

\* The analyzer with a scorer that may throw.
SpecScorer == Init /\ [][NextScorer]_vars

-----------------------------------------------------------------------------
(* The arrays completeRep() returns, as objects: the caller keeps the array  *)
(* of the first rep after a reset (its thumbnails) while the analyzer goes   *)
(* on.                                                                       *)

NewArray_shared(h) == 1

\* const positions: RepPosition[] = []  -- a new array at every call.
NewArray(h) ==
    CHOOSE r \in 1..(Cardinality(DOMAIN h) + 1) : r \notin DOMAIN h

\* The heap with array ref holding positions.
Write(h, ref, positions) ==
    [r \in DOMAIN h \cup {ref} |-> IF r = ref THEN positions ELSE h[r]]

\* The heap without the arrays nobody references.
Collect(h, live) == [r \in DOMAIN h \cap live |-> h[r]]

\* Under SpecHeld every stored peak is the first frame's.
HeldPeaksFor(ph) == {Peak(ph, "skeletonA", 1000, 1, 80, 45)}

HeldStorePeak ==
    \E phase \in {an.phase} : \E peak \in HeldPeaksFor(phase) : StorePeakCall(phase, peak)

HeldCompleteRep ==
    /\ CompleteRepCall
    /\ LET ref == NewArray(heap)
           written == Write(heap, ref, completeRep(an).repPositions)
       IN  IF held = NoHeld
           THEN /\ held' = [kind |-> "held", ref |-> ref, copy |-> written[ref]]
                /\ heap' = Collect(written, {ref})
           ELSE /\ held' = held
                /\ heap' = Collect(written, {held.ref})

\* The caller resets the analyzer and drops the thumbnails with it.
HeldReset ==
    /\ ResetCall
    /\ held' = NoHeld
    /\ heap' = EmptyHeap

NextHeld ==
    \/ CountFrame
    \/ CallTransitionTo
    \/ HeldStorePeak
    \/ HeldCompleteRep
    \/ HeldReset

SpecHeld == Init /\ [][NextHeld]_vars

-----------------------------------------------------------------------------
(* The hook's steps *)

\* The InputSession effect creates the pipeline and marks the app ready.
Mount ==
    /\ hook.pipeline = "null"
    /\ hook' = [hook EXCEPT !.pipeline = "pipeline", !.status = "Ready"]
    /\ lastFrame' = NotAFrame(hook)
    /\ UNCHANGED <<outsideHook, pipelineReps, failRun>>

\* A skeleton event from the session: the handler runs to its return.
SkeletonEvent ==
    \E event \in [skeleton : BOOLEAN] : \E outcome \in PipelineOutcomes :
        \* called: the handler reaches pipeline.processSkeletonEvent(event).
        \* When it does not, the outcome is not looked at (one is enough).
        LET called == event.skeleton /\ hook.pipeline # "null"
        IN  /\ called /\ outcome.threw => hook.consecutiveErrors < MaxErrorRun
            /\ called /\ ~outcome.threw => hook.frameIndex < MaxFrameIndex
            /\ ~called => outcome.threw
            /\ hook' = processSkeletonEvent(hook, event, outcome)
            /\ pipelineReps' = IF called /\ ~outcome.threw THEN outcome.result ELSE pipelineReps
            /\ failRun' = IF ~called THEN failRun
                          ELSE IF outcome.threw THEN failRun + 1 ELSE 0
            /\ lastFrame' = [outcome |-> IF ~called THEN "skipped"
                                         ELSE IF outcome.threw THEN "threw" ELSE "returned",
                             result |-> outcome.result,
                             exit |-> handlerExit(hook, event, outcome),
                             statusBefore |-> hook.status,
                             frameIndexBefore |-> hook.frameIndex,
                             repCountBefore |-> hook.repCount,
                             prevRepCountBefore |-> hook.prevRepCount]
            /\ UNCHANGED outsideHook

\* The session state subscription reports the source's state.
SessionStatus ==
    /\ hook.pipeline # "null"
    /\ \E st \in {"Extracting poses...", "Ready"} :
          hook' = [hook EXCEPT !.status = st]
    /\ lastFrame' = NotAFrame(hook)
    /\ UNCHANGED <<outsideHook, pipelineReps, failRun>>

\* The source reports a complete batch: the handler's counters start over.
BatchComplete ==
    /\ hook.pipeline # "null"
    /\ hook' = [hook EXCEPT !.status = "Ready", !.prevRepCount = 0, !.frameIndex = 0]
    /\ lastFrame' = NotAFrame(hook)
    /\ UNCHANGED <<outsideHook, pipelineReps, failRun>>

\* resetVideoState, before a new video is loaded.
ResetVideoState ==
    /\ hook' = [hook EXCEPT !.repCount = 0]
    /\ pipelineReps' = 0
    /\ lastFrame' = NotAFrame(hook)
    /\ UNCHANGED <<outsideHook, failRun>>

NextFrames ==
    \/ Mount
    \/ SkeletonEvent
    \/ SessionStatus
    \/ BatchComplete
    \/ ResetVideoState

SpecFrames == Init /\ [][NextFrames]_vars

-----------------------------------------------------------------------------
(* The reducer's steps *)

\* dispatch(action): React replaces the state by analyzerReducer(state, action).
DispatchLifecycle ==
    /\ \E action \in LifecycleActions :
          reducerState' = analyzerReducer(reducerState, action)
    /\ UNCHANGED outsideReducer

DispatchDisplay ==
    /\ \E action \in DisplayActions :
          reducerState' = analyzerReducer(reducerState, action)
    /\ UNCHANGED outsideReducer

NextReducer == DispatchLifecycle

SpecReducer == Init /\ [][NextReducer]_vars

NextDisplay == DispatchDisplay

SpecDisplay == Init /\ [][NextDisplay]_vars

-----------------------------------------------------------------------------
(* The detection hook's steps *)

\* The pipeline emits a detection event: the subscription's next handler calls
\* handleDetectionEvent with the lock flag of its closure.  The state update
\* is rendered, and the effect re-run, some time later (RerunEffect).
DetectionEvent ==
    /\ \E event \in DetectionEvents : \E pipelinePhases \in PipelinePhases :
          /\ detection' = handleDetectionEvent(detection, event, subscription.locked,
                                               pipelinePhases)
          /\ detectionCall' = [op |-> "handleDetectionEvent",
                               exercise |-> event.exercise,
                               confidence |-> event.confidence,
                               wasAlreadyLocked |-> subscription.locked]
    /\ UNCHANGED <<subscription, override, hookVars, outsideDetection>>

\* The detection stream fails: the error handler falls back to the kettlebell
\* swing and says so.
DetectionError ==
    /\ detection' = handleLegacyDetectionLock(detection, "kettlebell-swing",
                                              <<"top", "connect", "bottom", "release">>)
    /\ detectionCall' = [op |-> "handleLegacyDetectionLock"]
    /\ hook' = [hook EXCEPT !.status = "Detection error - defaulting to kettlebell swing"]
    /\ UNCHANGED <<subscription, override, pipelineReps, failRun, lastFrame,
                   outsideDetection>>

\* The user selects an exercise.  The selection is a discrete input event:
\* React renders the update and re-runs the session effect, whose dependency
\* isDetectionLocked it changed, before the next event is delivered.
SelectExercise ==
    /\ \E exerciseType \in {"kettlebell-swing", "pistol-squat"} :
       \E pipelinePhases \in PipelinePhases :
          /\ detection' = setExerciseType(detection, exerciseType, pipelinePhases)
          /\ detectionCall' = [op |-> "setExerciseType", exercise |-> exerciseType]
          /\ override' = exerciseType
    /\ subscription' = Subscribed(detection')
    /\ IF detection'.isDetectionLocked # subscription.locked
       THEN /\ session.reruns < MaxEffectRuns
            /\ session' = rerunSessionEffect(session)
       ELSE UNCHANGED session
    /\ UNCHANGED <<hookVars, loadVars, outsideSession>>

\* resetDetectionState(), from resetVideoState and reset.
ResetDetection ==
    /\ detection' = resetDetectionState(detection)
    /\ detectionCall' = [op |-> "resetDetectionState"]
    /\ override' = NoOverride
    /\ UNCHANGED <<subscription, hookVars, outsideDetection>>

\* React re-runs the session effect after a render in which isDetectionLocked
\* differs from the one of the effect's last run.
RerunEffect ==
    /\ subscription.locked # detection.isDetectionLocked
    /\ session.reruns < MaxEffectRuns
    /\ subscription' = Subscribed(detection)
    /\ session' = rerunSessionEffect(session)
    /\ detectionCall' = [op |-> "effect"]
    /\ UNCHANGED <<detection, override, hookVars, loadVars, outsideSession>>

NextDetection ==
    \/ DetectionEvent
    \/ DetectionError
    \/ SelectExercise
    \/ ResetDetection
    \/ RerunEffect

SpecDetection == Init /\ [][NextDetection]_vars

-----------------------------------------------------------------------------
(* The navigation hook's steps *)

\* A rep completes: it is counted, and the positions of its thumbnail event
\* are stored as the rep's thumbnails (none when the event brings none).
CaptureRep ==
    /\ nav.repCount < MaxNavReps
    /\ \E positions \in PositionArrays :
          nav' = [nav EXCEPT
                    !.repThumbnails = MapSet(@, nav.repCount + 1, ToCandidates(positions)),
                    !.repCount = nav.repCount + 1]
    /\ UNCHANGED outsideNavigation

\* The user steps to the previous checkpoint.
PreviousCheckpoint ==
    /\ nav' = navigateToPreviousCheckpoint(nav)
    /\ UNCHANGED outsideNavigation

\* The user steps to the next checkpoint.
NextCheckpoint ==
    /\ nav' = navigateToNextCheckpoint(nav)
    /\ UNCHANGED outsideNavigation

\* The user steps to the previous rep.
PreviousRep ==
    /\ nav' = navigateToPreviousRep(nav)
    /\ UNCHANGED outsideNavigation

\* The user steps to the next rep.
NextRep ==
    /\ nav' = navigateToNextRep(nav)
    /\ UNCHANGED outsideNavigation

\* The video plays to a time, and the sync handler resolves it.
PlayTo ==
    /\ \E t \in PlaybackTimes :
          nav' = updateRepAndPositionFromTime(
                     [nav EXCEPT !.currentTime = t, !.paused = FALSE], t)
    /\ UNCHANGED outsideNavigation

\* A new video is loaded: resetVideoState clears the thumbnails and the rep
\* count, and the video element starts over paused at time 0; the rep index
\* and the position label are not touched.
NewVideo ==
    /\ nav' = [nav EXCEPT !.repThumbnails = EmptyMap,
                          !.repCount = 0,
                          !.currentTime = 0,
                          !.paused = TRUE]
    /\ UNCHANGED outsideNavigation

NextNavigation ==
    \/ CaptureRep
    \/ PreviousRep
    \/ NextRep
    \/ PreviousCheckpoint
    \/ NextCheckpoint
    \/ PlayTo
    \/ NewVideo

SpecNavigation == InitOutsideAnalyzer /\ [][NextNavigation]_vars

-----------------------------------------------------------------------------
(* The steps of video loading *)

\* The download reports this progress.
Percents == {50}

\* The task in which a load starts has run and left a behind: besides the
\* loader, the status line and the video element, resetVideoState() has
\* cleared the rep count, reset the pipeline and reset the detection state.
Started(a) ==
    /\ loader' = a.loader
    /\ hook' = [hook EXCEPT !.status = a.status, !.repCount = 0]
    /\ pipelineReps' = 0
    /\ lastFrame' = NotAFrame(hook)
    /\ nav' = a.nav
    /\ detection' = resetDetectionState(detection)
    /\ detectionCall' = [op |-> "resetDetectionState"]
    /\ override' = NoOverride
    /\ UNCHANGED outsideLoad

\* The handler found the session or the video element missing.
Refused ==
    /\ hook' = [hook EXCEPT !.status = NotInitialized]
    /\ lastFrame' = NotAFrame(hook)
    /\ UNCHANGED <<outsideHook, pipelineReps, failRun>>

\* The user chooses a file to upload.
StartUpload ==
    /\ loader.mounted
    /\ Len(loader.loads) < MaxLoads
    /\ IF hook.pipeline = "null" THEN Refused
       ELSE Started(handleVideoUpload(loader, hook.status, nav))

\* The user asks for a sample video.
StartSample ==
    /\ loader.mounted
    /\ Len(loader.loads) < MaxLoads
    /\ IF hook.pipeline = "null" THEN Refused
       ELSE \E bundled \in BOOLEAN :
               Started(loadSampleVideo(loader, hook.status, nav, bundled))

\* The await of a load settles and the load runs to its next await or to its
\* return.
ResumeLoad ==
    \E i \in 1..Len(loader.loads) : \E outcome \in Outcomes(loader, i) :
        LET a == resume(loader, hook.status, nav, i, outcome)
        IN  /\ loader' = a.loader
            /\ hook' = [hook EXCEPT !.status = a.status]
            /\ lastFrame' = NotAFrame(hook)
            /\ nav' = a.nav
            /\ UNCHANGED <<outsideLoad, pipelineReps, detection, detectionCall, override>>

\* A chunk of a download arrives.
DownloadProgress ==
    \E i \in 1..Len(loader.loads) : \E percent \in Percents :
        /\ loader.loads[i].pc = "fetch"
        /\ ~loader.controllers[i]
        /\ loader' = onProgress(loader, percent)
        /\ hook' = [hook EXCEPT !.status = "Downloading sample... 50%"]
        /\ lastFrame' = NotAFrame(hook)
        /\ UNCHANGED <<outsideLoad, pipelineReps, detection, detectionCall, override, nav>>

\* The component unmounts.
Unmount ==
    /\ loader.mounted
    /\ hook.pipeline # "null"
    /\ loader' = unmountCleanup(loader)
    /\ session' = sessionCleanup(session)
    /\ UNCHANGED <<hookVars, detectionVars, outsideSession>>

NextLoad ==
    \/ Mount
    \/ StartUpload
    \/ StartSample
    \/ ResumeLoad
    \/ DownloadProgress
    \/ Unmount

SpecLoad == InitOutsideAnalyzer /\ [][NextLoad]_vars

\* The mounted component while videos are uploaded and the exercise is
\* detected or selected.
NextSession ==
    \/ Mount
    \/ StartUpload
    \/ ResumeLoad
    \/ DetectionEvent
    \/ SelectExercise
    \/ RerunEffect

SpecSession == InitOutsideAnalyzer /\ [][NextSession]_vars

-----------------------------------------------------------------------------
(* The steps of a pose track *)

\* Extraction appends a frame to the track.
AppendFrame ==
    /\ ~track.computed
    /\ Len(track.frames) < MaxTrack
    /\ \E kind \in FrameKinds :
          LET videoTime == IF track.frames = <<>> THEN kind.delta
                           ELSE track.frames[Len(track.frames)].videoTime + kind.delta
              longer == Append(track.frames, Frame(videoTime, kind))
          IN  /\ Cardinality(Irregular(longer)) <= MaxIrregular
              /\ track' = [track EXCEPT !.frames = longer]
    /\ UNCHANGED outsideTrack

\* The pass runs once over the extracted track, with the default configuration.
ComputeSpeeds ==
    /\ ~track.computed
    /\ track' = [frames |-> computeFrameSpeeds(track.frames, DEFAULT_CONFIG),
                 computed |-> TRUE]
    /\ UNCHANGED outsideTrack

\* Another video's track is started.
DiscardTrack ==
    /\ track.computed
    /\ track' = NewTrack
    /\ UNCHANGED outsideTrack

NextSpeeds ==
    \/ AppendFrame
    \/ ComputeSpeeds
    \/ DiscardTrack

SpecSpeeds == InitOutsideAnalyzer /\ [][NextSpeeds]_vars

-----------------------------------------------------------------------------
(* The depth measurements *)

\* The depth is calculated for the ear height of the next frame.
MeasureDepth ==
    /\ \E step \in EarSteps :
          /\ squat.normalizedEarY + step \in EarYs
          /\ squat' = Measured(squat.normalizedEarY + step)
    /\ UNCHANGED outsideDepth

NextDepth == MeasureDepth

SpecDepth == InitOutsideAnalyzer /\ [][NextDepth]_vars

-----------------------------------------------------------------------------
(* The steps of the canvas *)

\* A video's metadata has loaded: the canvas is synced as with zoom off,
\* whatever the crop state is.
LoadedMetadata ==
    /\ \E video \in Videos :
          canvas' = syncCanvasToVideo([canvas EXCEPT !.video = video], FALSE, NoCrop)
    /\ UNCHANGED outsideCanvas

\* Extraction has calculated the crop region of the video.
CropDetected ==
    /\ \E crop \in Crops(canvas.video) \cup {NoCrop} :
          canvas' = [canvas EXCEPT !.cropRegion = crop]
    /\ UNCHANGED outsideCanvas

\* toggleCrop(): the zoom is switched and the canvas synced.
ToggleCrop ==
    /\ canvas.cropRegion # NoCrop
    /\ canvas' = syncCanvasToVideo([canvas EXCEPT !.isCropEnabled = ~canvas.isCropEnabled],
                                   ~canvas.isCropEnabled, canvas.cropRegion)
    /\ UNCHANGED outsideCanvas

\* The window is resized: the video element has another size and offset.
Resize ==
    /\ \E container \in Containers : \E videoOffset \in Offsets :
          canvas' = syncCanvasToVideo([canvas EXCEPT !.container = container,
                                                     !.videoOffset = videoOffset],
                                      canvas.isCropEnabled, canvas.cropRegion)
    /\ UNCHANGED outsideCanvas

NextCanvas ==
    \/ LoadedMetadata
    \/ CropDetected
    \/ ToggleCrop
    \/ Resize

SpecCanvas == InitOutsideAnalyzer /\ [][NextCanvas]_vars

-----------------------------------------------------------------------------
(* The steps of crop detection *)

\* A frame of the pose track is taken as a sample.
SampleFrame ==
    /\ ~stable.calculated
    /\ Len(stable.frames) < MaxSample
    /\ \E keypoints \in SampleFrames :
          stable' = [stable EXCEPT !.frames = Append(@, keypoints)]
    /\ UNCHANGED outsideCrop

\* The crop region is calculated from the samples and stored.
CalculateCrop ==
    /\ ~stable.calculated
    /\ stable' = [stable EXCEPT
                     !.calculated = TRUE,
                     !.cropRegion = calculateStableCropRegion(stable.frames,
                                       stable.videoWidth, stable.videoHeight)]
    /\ UNCHANGED outsideCrop

\* Another video is analyzed; the crop region stays until it is calculated.
NextVideo ==
    /\ stable.calculated
    /\ \E video \in CropVideos :
          stable' = [stable EXCEPT !.videoWidth = video.videoWidth,
                                   !.videoHeight = video.videoHeight,
                                   !.frames = <<>>,
                                   !.calculated = FALSE]
    /\ UNCHANGED outsideCrop

NextCrop ==
    \/ SampleFrame
    \/ CalculateCrop
    \/ NextVideo

SpecCrop == InitOutsideAnalyzer /\ [][NextCrop]_vars

-----------------------------------------------------------------------------
(* The steps of the metadata wait *)

\* What an event leaves of the wait: after the listeners have run, the event
\* is noted as the first since the wait began if none was before it, and
\* counted when no listener ran for it.
Reached(type, after) ==
    [after EXCEPT !.first = IF @ = NoEvent THEN type ELSE @,
                  !.ignored = IF after.settled = wait.settled THEN @ + 1 ELSE @]

\* An event may occur: one no listener waits for is counted up to the bound.
MayOccur(type) ==
    /\ wait.entered > 0
    /\ type \notin wait.listeners => wait.ignored < MaxIgnored

\* loadVideo calls loadVideoSafely with the signal of its load.  The wait of
\* the load before has settled: prepareVideoLoad aborted its signal.
CallLoadVideoSafely ==
    /\ wait.promise # "pending"
    /\ wait.entered < MaxWaits
    /\ \E aborted \in BOOLEAN :
          wait' = [waitForMetadata(wait, aborted) EXCEPT
                      !.first = IF aborted THEN "abort" ELSE NoEvent,
                      !.ignored = 0]
    /\ UNCHANGED outsideWait

\* The video element fires loadedmetadata.
MetadataLoaded ==
    /\ MayOccur("loadedmetadata")
    /\ wait' = Reached("loadedmetadata", deliver(wait, "loadedmetadata", "null"))
    /\ UNCHANGED outsideWait

\* The video element fires error.
MediaFailed ==
    /\ MayOccur("error")
    /\ \E mediaError \in MediaErrors :
          wait' = Reached("error", deliver(wait, "error", mediaError))
    /\ UNCHANGED outsideWait

\* The controller of the load is aborted: the signal fires abort, once.
SignalAborted ==
    /\ MayOccur("abort")
    /\ ~wait.aborted
    /\ wait' = Reached("abort", deliver([wait EXCEPT !.aborted = TRUE], "abort", "null"))
    /\ UNCHANGED outsideWait

\* Ten seconds have passed with the timer armed.
TimerFired ==
    /\ wait.timer
    /\ wait' = Reached("timeout", onTimeout([wait EXCEPT !.timer = FALSE]))
    /\ UNCHANGED outsideWait

NextWait ==
    \/ CallLoadVideoSafely
    \/ MetadataLoaded
    \/ MediaFailed
    \/ SignalAborted
    \/ TimerFired

SpecWait == InitOutsideAnalyzer /\ [][NextWait]_vars

-----------------------------------------------------------------------------
(* Steps of the playback effect *)

\* The component mounts: its effects run.
MountPlayback ==
    /\ sync.listening = "no"
    /\ sync' = mountEffects(sync)
    /\ UNCHANGED <<nav, outsideSync>>

\* The component unmounts: the cleanups run.
UnmountPlayback ==
    /\ sync.listening = "yes"
    /\ sync' = unmountEffects(sync)
    /\ UNCHANGED <<nav, outsideSync>>

\* The video starts playing.
PlayEvent ==
    /\ sync.listening = "yes"
    /\ ~sync.isPlaying
    /\ sync' = Recorded(sync, handlePlayWithCallback(sync), "play", sync.clock)
    /\ nav' = [nav EXCEPT !.paused = FALSE]
    /\ UNCHANGED outsideSync

\* The video is paused.
PauseEvent ==
    /\ sync.listening = "yes"
    /\ sync.isPlaying
    /\ sync' = Recorded(sync, handlePauseWithCallback(sync), "pause", sync.clock)
    /\ nav' = [nav EXCEPT !.paused = TRUE]
    /\ UNCHANGED outsideSync

\* The video reaches its end.
EndedEvent ==
    /\ sync.listening = "yes"
    /\ sync.isPlaying
    /\ sync' = Recorded(sync, handleEndedWithCallback(sync), "ended", sync.clock)
    /\ nav' = [nav EXCEPT !.paused = TRUE]
    /\ UNCHANGED outsideSync

\* The browser presents a frame and runs the callback requested.
FrameCallback ==
    \E gap \in FrameGaps : \E mediaTime \in PlaybackTimes :
        LET now == sync.clock + gap
            after == renderVideoFrame(sync, now, mediaTime)
        IN  /\ sync.videoFrameCallbackId = "requested"
            /\ now <= MaxClock
            /\ sync' = [Recorded(sync, after, "frame", now) EXCEPT
                            !.clock = now,
                            !.lastThrottled = IF after.called THEN now ELSE @]
            /\ nav' = syncHandler([nav EXCEPT !.currentTime = mediaTime], after)
            /\ UNCHANGED outsideSync

\* A seek has finished, playing or paused.
SeekedEvent ==
    \E currentTime \in PlaybackTimes :
        LET after == handleSeeked(sync, currentTime)
        IN  /\ sync.listening = "yes"
            /\ sync' = Recorded(sync, after, "seeked", sync.clock)
            /\ nav' = syncHandler([nav EXCEPT !.currentTime = currentTime], after)
            /\ UNCHANGED outsideSync

NextSync ==
    \/ MountPlayback
    \/ UnmountPlayback
    \/ PlayEvent
    \/ PauseEvent
    \/ EndedEvent
    \/ FrameCallback
    \/ SeekedEvent

SpecSync == InitOutsideAnalyzer /\ [][NextSync]_vars

-----------------------------------------------------------------------------
(* Dispatches of the thumbnail actions *)

\* dispatch(action) with one of the thumbnail actions: the reducer runs on
\* the current state.
DispatchThumbnail ==
    \E action \in ThumbnailActions :
        /\ MakesMap(thumbnails, action) => Len(thumbnails.heap) < MaxObjects
        /\ thumbnails' = reduceThumbnails(thumbnails, action)
        /\ reducerState' = analyzerReducer(reducerState, action)
        /\ UNCHANGED outsideThumbs

NextThumbnails == DispatchThumbnail

SpecThumbnails == InitOutsideAnalyzer /\ [][NextThumbnails]_vars

-----------------------------------------------------------------------------
(* The claims about FormAnalyzerBase, checked under Spec *)

\* C1: repCount changes in two ways only: completeRep() raises it by exactly 1
\* and reset() sets it to 0; every other call leaves it as it was.
C1_RepCountChanges ==
    [][ /\ (last'.op = "completeRep" => an'.repCount = an.repCount + 1)
        /\ (last'.op = "reset" => an'.repCount = 0)
        /\ (last'.op \notin {"completeRep", "reset"} => an'.repCount = an.repCount) ]_vars

\* C1 witness: a second rep has been completed without a reset in between.
C1_Witness == last.op = "completeRep" /\ an.repCount = 2

\* C2: reset(), from any state, leaves repCount = 0, framesInPhase = 0,
\* lastRepQuality = null and no peak, and the exercise-specific reset has run.
C2_ResetClears ==
    last.op = "reset" =>
        /\ an.repCount = 0
        /\ an.framesInPhase = 0
        /\ an.lastRepQuality = Null
        /\ \A p \in PhaseSet : getPeak(an, p) = NoPeak
        /\ an.exerciseState = "initial"

\* C2 witness: reset() was called with reps counted, frames counted, a quality
\* and a peak stored, away from the initial phase.
C2_Witness ==
    /\ last.op = "reset"
    /\ last.before.repCount > 0
    /\ last.before.framesInPhase > 0
    /\ last.before.lastRepQuality # Null
    /\ last.before.currentRepPeaks # EmptyPeaks
    /\ last.before.exerciseState = "tracking"
    /\ last.before.phase # exercise.initialPhase

C4_DwellAfterTransition ==
    /\ last.op = "transitionTo" => (an.framesInPhase = 0 /\ ~canTransition(an))
    /\ canTransition(an) => dwell >= minFramesInPhase

\* C4 witness: a transition was made, and frames were then counted in the new
\* phase until the next transition is allowed.
C4_Witness ==
    /\ an.phase # exercise.initialPhase
    /\ last.op = "countFrame"
    /\ canTransition(an)
    /\ dwell = minFramesInPhase

\* C5: the base part of reset() leaves the phase alone: the exercise-specific
\* reset is called with the phase of before the call, and when that reset does
\* not restore the initial phase, getPhase() is the same after reset() as before.
C5_BaseResetKeepsPhase ==
    last.op = "reset" =>
        /\ getPhase(last.hookSaw) = getPhase(last.before)
        /\ (~exercise.resetRestoresPhase => getPhase(an) = getPhase(last.before))

\* C5 witness: reset() away from the initial phase, in an exercise that keeps it.
C5_Witness ==
    /\ last.op = "reset"
    /\ ~exercise.resetRestoresPhase
    /\ getPhase(last.before) # exercise.initialPhase
    /\ getPhase(an) = getPhase(last.before)

\* The positions named ph in a returned list.
Named(positions, ph) == {i \in 1..Len(positions) : positions[i].name = ph}

\* C6: completeRep() returns one position for each phase with a stored peak,
\* named after the phase and carrying the peak's timestamp, video time, angles
\* and score, and none for the other phases; afterwards no peak is stored and
\* lastRepQuality is the returned quality.
C6_PositionsFromPeaks ==
    last.op = "completeRep" =>
        /\ \A p \in PhaseSet :
              IF last.peaksBefore[p] = NoPeak
              THEN Named(last.repPositions, p) = {}
              ELSE /\ Cardinality(Named(last.repPositions, p)) = 1
                   /\ \A i \in Named(last.repPositions, p) :
                         /\ last.repPositions[i].timestamp = last.peaksBefore[p].timestamp
                         /\ last.repPositions[i].videoTime = last.peaksBefore[p].videoTime
                         /\ last.repPositions[i].angles = last.peaksBefore[p].angles
                         /\ last.repPositions[i].score = last.peaksBefore[p].score
        /\ \A i \in 1..Len(last.repPositions) : last.repPositions[i].name \in PhaseSet
        /\ an.currentRepPeaks = EmptyPeaks
        /\ an.lastRepQuality = last.repQuality
        /\ last.repQuality # Null

\* C6 witness: a rep completed with peaks for some phases and not for others.
C6_Witness ==
    /\ last.op = "completeRep"
    /\ Len(last.repPositions) = 2
    /\ \E i, j \in 1..2 : last.repPositions[i].videoTime # last.repPositions[j].videoTime

\* C7: storePeak(phase, peak) puts peak under phase, in place of what was
\* there, and changes nothing else: not the other phases' peaks, the phase,
\* the counters, the rep count or the last quality.
C7_StorePeakReplacesOne ==
    [][last'.op = "storePeak" =>
          /\ getPeak(an', last'.phase) = last'.peak
          /\ \A q \in PhaseSet \ {last'.phase} : getPeak(an', q) = getPeak(an, q)
          /\ an'.phase = an.phase
          /\ an'.framesInPhase = an.framesInPhase
          /\ an'.repCount = an.repCount
          /\ an'.lastRepQuality = an.lastRepQuality ]_vars

\* C7 witness: a peak replaced a different peak of its phase while another
\* phase held a peak.
C7_Witness ==
    /\ last.op = "storePeak"
    /\ last.replaced \notin {NoPeak, last.peak}
    /\ getPeak(an, last.phase) = last.peak
    /\ \E q \in PhaseSet \ {last.phase} : getPeak(an, q) # NoPeak

-----------------------------------------------------------------------------
(* Checked under SpecHeld *)

\* C8: the positions completeRep() returned for a rep stay what they were when
\* returned, through every later storePeak, transitionTo and completeRep, until
\* the analyzer is reset.
C8_ReturnedPositionsImmutable ==
    held # NoHeld => heap[held.ref] = held.copy

\* C8 witness: after the held rep, peaks were stored and a later rep was
\* completed with other positions.
C8_Witness ==
    /\ held # NoHeld
    /\ Len(held.copy) > 0
    /\ last.op = "completeRep"
    /\ an.repCount = 2
    /\ Len(last.repPositions) > 0
    /\ last.repPositions # held.copy

-----------------------------------------------------------------------------
(* Checked under SpecFrames *)

\* C10: the degraded-analysis notice is set only by the fifth pipeline failure
\* in a row: a frame the pipeline processed resets the failure count to 0, and
\* frames are processed the same after the notice (the frame index advances
\* and the rep count is displayed).
C10_NoticeAfterFiveFailures ==
    /\ (hook.status = DegradedNotice /\ lastFrame.statusBefore # DegradedNotice)
          => (lastFrame.outcome = "threw" /\ failRun = MAX_CONSECUTIVE_ERRORS)
    /\ lastFrame.outcome = "returned" =>
          /\ hook.consecutiveErrors = 0
          /\ hook.frameIndex = lastFrame.frameIndexBefore + 1
          /\ hook.repCount = lastFrame.result

\* C10 witness: the notice is up and the next frame was processed.
C10_Witness ==
    /\ hook.status = DegradedNotice
    /\ lastFrame.outcome = "returned"
    /\ lastFrame.statusBefore = DegradedNotice
    /\ hook.consecutiveErrors = 0

\* C11: what the pipeline throws while processing a frame does not leave the
\* frame handler: the handler returns, and the displayed rep count, the frame
\* index and the previous-rep-count tracker are what they were before the frame.
C11_ThrownFrameSkipped ==
    lastFrame.outcome = "threw" =>
        /\ lastFrame.exit = "returns"
        /\ hook.repCount = lastFrame.repCountBefore
        /\ hook.frameIndex = lastFrame.frameIndexBefore
        /\ hook.prevRepCount = lastFrame.prevRepCountBefore

\* C11 witness: the pipeline threw after frames had been processed and a rep
\* counted and displayed.
C11_Witness ==
    /\ lastFrame.outcome = "threw"
    /\ hook.frameIndex > 0
    /\ hook.repCount > 0
    /\ hook.prevRepCount > 0


-----------------------------------------------------------------------------
(* The claims about analyzerReducer, checked under SpecReducer *)

\* The video states in which the reducer acts on an action of the given type.
C12_Sources(type) ==
    CASE type = "PLAY" -> {"ready", "playing"}
      [] type \in {"PAUSE", "VIDEO_ENDED"} -> {"playing"}
      [] type = "VIDEO_LOADED" -> {"loading", "extracting"}
      [] type \in {"EXTRACTION_START", "LOADING_PROGRESS"} -> {"loading"}
      [] type \in {"EXTRACTION_PROGRESS", "EXTRACTION_COMPLETE"} -> {"extracting"}

\* C12: the video state moves along guarded transitions only: 'extracting' is
\* entered from 'loading' only, 'ready' from 'loading', 'extracting' or
\* 'playing' only, 'playing' from 'ready' or 'playing' only; and PLAY, PAUSE,
\* VIDEO_ENDED, VIDEO_LOADED, EXTRACTION_START, EXTRACTION_PROGRESS,
\* EXTRACTION_COMPLETE and LOADING_PROGRESS dispatched in any other video
\* state return the state they were given.
C12_GuardedVideoTransitions ==
    /\ [][ LET from == reducerState.video.type
               to == reducerState'.video.type
           IN  /\ (to = "extracting" /\ from # to) => from = "loading"
               /\ (to = "ready" /\ from # to) => from \in {"loading", "extracting", "playing"}
               /\ to = "playing" => from \in {"ready", "playing"} ]_vars
    /\ [](\A action \in AnalyzerActions :
            (/\ action.type \in {"PLAY", "PAUSE", "VIDEO_ENDED", "VIDEO_LOADED",
                                  "EXTRACTION_START", "EXTRACTION_PROGRESS",
                                  "EXTRACTION_COMPLETE", "LOADING_PROGRESS"}
             /\ reducerState.video.type \notin C12_Sources(action.type))
            => analyzerReducer(reducerState, action) = reducerState)

\* C12 witness: extraction was started from 'loading' and has reported
\* progress, with reps counted meanwhile.
C12_Witness ==
    /\ reducerState.video.type = "extracting"
    /\ reducerState.video.progress = HalfProgress
    /\ reducerState.analysis.repCount > 0

\* The file a video state carries, if it carries one.
FileOf(video) ==
    IF "videoFile" \in DOMAIN video THEN video.videoFile ELSE "null"

\* C13: in every reachable state the video state carries a video file exactly
\* when its type is 'extracting', 'ready' or 'playing', and PLAY, PAUSE,
\* VIDEO_ENDED and EXTRACTION_COMPLETE return a state with the file of the
\* state they were given.
C13_VideoFileWithType ==
    /\ ("videoFile" \in DOMAIN reducerState.video)
          <=> reducerState.video.type \in {"extracting", "ready", "playing"}
    /\ FileOf(reducerState.video) \in Files \cup {"null"}
    /\ getVideoFile(reducerState) = FileOf(reducerState.video)
    /\ \A action \in AnalyzerActions :
          action.type \in {"PLAY", "PAUSE", "VIDEO_ENDED", "EXTRACTION_COMPLETE"}
          => FileOf(analyzerReducer(reducerState, action).video) = FileOf(reducerState.video)

\* C13 witness: the second file is playing, after its poses were found.
C13_Witness ==
    /\ reducerState.video.type = "playing"
    /\ reducerState.video.videoFile = "fileB"
    /\ reducerState.analysis.hasPosesForCurrentFrame

\* C14: SET_REP_INDEX with index < 0 or index >= repCount returns the state it
\* was given, and otherwise that state with currentRepIndex = index and
\* nothing else changed; the hook's setCurrentRepIndex callback does the same
\* to its appState for the same rep count and index.
C14_RepIndexWithinReps ==
    \A action \in NavigationActions :
        LET outOfRange == action.index < 0 \/ action.index >= reducerState.analysis.repCount
            appState == NewAppState(reducerState.currentRepIndex)
            called == setCurrentRepIndexCallback(appState, reducerState.analysis.repCount,
                                                 action.index)
        IN  /\ analyzerReducer(reducerState, action) =
                  IF outOfRange THEN reducerState
                  ELSE [reducerState EXCEPT !.currentRepIndex = action.index]
            /\ called = IF outOfRange THEN appState
                        ELSE [appState EXCEPT !.currentRepIndex = action.index]

\* C14 witness: the last of the reps is selected, with thumbnails stored.
C14_Witness ==
    /\ reducerState.analysis.repCount = MaxCount
    /\ reducerState.currentRepIndex = MaxCount - 1
    /\ reducerState.currentRepIndex > 0
    /\ reducerState.analysis.repThumbnails # EmptyMap

-----------------------------------------------------------------------------
(* Checked under SpecDisplay *)

\* C15: RESET_VIDEO, from any state, returns the video state idle, rep count 0,
\* no thumbnails and current rep index 0, with the HUD values, the crop and
\* display settings and isModelLoaded of the state it was given; RESET_ALL
\* returns the initial value of every field except isModelLoaded, which is
\* the one of the state it was given.
C15_Resets ==
    \A action \in AnalyzerActions :
        LET after == analyzerReducer(reducerState, action)
        IN  /\ action.type = "RESET_VIDEO" =>
                  /\ after.video = [type |-> "idle"]
                  /\ after.analysis.repCount = 0
                  /\ after.analysis.repThumbnails = EmptyMap
                  /\ after.currentRepIndex = 0
                  /\ after.hud = reducerState.hud
                  /\ after.view.cropRegion = reducerState.view.cropRegion
                  /\ after.view.isCropEnabled = reducerState.view.isCropEnabled
                  /\ after.view.isLandscape = reducerState.view.isLandscape
                  /\ after.view.displayMode = reducerState.view.displayMode
                  /\ after.isModelLoaded = reducerState.isModelLoaded
            /\ action.type = "RESET_ALL" =>
                  /\ after.video = initialAnalyzerState.video
                  /\ after.hud = initialAnalyzerState.hud
                  /\ after.analysis = initialAnalyzerState.analysis
                  /\ after.view = initialAnalyzerState.view
                  /\ after.currentRepIndex = initialAnalyzerState.currentRepIndex
                  /\ after.isModelLoaded = reducerState.isModelLoaded

\* C15 witness: the video was reset (status 'Ready' with no model loaded) with
\* HUD values, crop and display settings that are not the initial ones.
C15_Witness ==
    /\ reducerState.video.type = "idle"
    /\ reducerState.view.status = "Ready"
    /\ ~reducerState.isModelLoaded
    /\ reducerState.hud.spineAngle = 10
    /\ reducerState.hud.wristVelocity = 5
    /\ reducerState.hud.currentAngles # EmptyMap
    /\ reducerState.hud.currentPosition = "top"
    /\ reducerState.view.cropRegion = SomeRegion
    /\ reducerState.view.isCropEnabled
    /\ reducerState.view.isLandscape
    /\ reducerState.view.displayMode = "video"


-----------------------------------------------------------------------------
(* The claims about useExerciseDetection, checked under SpecDetection *)

\* C16: handleDetectionEvent locks detection exactly when the event's
\* confidence is >= 90, and called with wasAlreadyLocked = true it changes
\* none of detected exercise, confidence, lock flag, phases and working leg.
C16_LockAtNinety ==
    [][detectionCall'.op = "handleDetectionEvent" =>
          IF detectionCall'.wasAlreadyLocked
          THEN detection' = detection
          ELSE /\ detection'.isDetectionLocked = (detectionCall'.confidence >= 90)
               /\ detection'.detectedExercise = detectionCall'.exercise
               /\ detection'.detectionConfidence = detectionCall'.confidence ]_vars

\* C16 witness: an event with confidence 90 has locked detection, and the
\* next one, with confidence 89 and another exercise, was ignored.
C16_Witness ==
    /\ detectionCall.op = "handleDetectionEvent"
    /\ detectionCall.wasAlreadyLocked
    /\ detectionCall.confidence = 89
    /\ detectionCall.exercise = "pistol-squat"
    /\ detection.detectionConfidence = 90
    /\ detection.detectedExercise = "kettlebell-swing"
    /\ detection.isDetectionLocked
    /\ override = NoOverride

-----------------------------------------------------------------------------
(* The claims about checkpoint navigation, checked under SpecNavigation *)

\* The greatest of a non-empty set of numbers.
Greatest(S) == CHOOSE i \in S : \A j \in S : j <= i

\* The least of a non-empty set of numbers.
Least(S) == CHOOSE i \in S : \A j \in S : i <= j

\* C18: the checkpoint list holds every captured rep position exactly once
\* and nothing else, in ascending order of video time, equal times in order
\* of rep number and then of phase order; with no captured position it is
\* empty.
C18_CheckpointListSorted ==
    LET list == getAllCheckpoints(nav)
        thumbs == nav.repThumbnails
    IN  /\ \A r \in DOMAIN thumbs : \A p \in DOMAIN thumbs[r] :
              Cardinality({i \in 1..Len(list) :
                              /\ list[i].repNum = r
                              /\ list[i].position = p
                              /\ list[i].videoTime = thumbs[r][p].videoTime}) = 1
        /\ \A i \in 1..Len(list) :
              /\ list[i].repNum \in DOMAIN thumbs
              /\ list[i].position \in DOMAIN thumbs[list[i].repNum]
        /\ \A i, j \in 1..Len(list) :
              i < j =>
                 /\ <<list[i].repNum, list[i].position>> # <<list[j].repNum, list[j].position>>
                 /\ list[i].videoTime <= list[j].videoTime
                 /\ list[i].videoTime = list[j].videoTime => list[i].repNum <= list[j].repNum
                 /\ (list[i].videoTime = list[j].videoTime /\ list[i].repNum = list[j].repNum)
                       => PhaseIndex(NavPhases, list[i].position)
                            < PhaseIndex(NavPhases, list[j].position)
        /\ (\A r \in DOMAIN thumbs : DOMAIN thumbs[r] = {}) => list = <<>>

\* C18 witness: four checkpoints, with equal times across two reps and within
\* a rep, the later rep holding the earliest time; the list has been used.
C18_Witness ==
    LET list == getAllCheckpoints(nav)
    IN  /\ Len(list) = 4
        /\ nav.repThumbnails[1]["top"].videoTime = 103
        /\ nav.repThumbnails[1]["bottom"].videoTime = 103
        /\ nav.repThumbnails[2]["top"].videoTime = 103
        /\ nav.repThumbnails[2]["bottom"].videoTime = 100
        /\ nav.currentPosition # NullPosition

\* C19: previous-checkpoint navigation selects the last checkpoint whose video
\* time is strictly less than the current time, next-checkpoint navigation the
\* first whose video time is strictly greater: the video is paused there, and
\* the checkpoint's position and rep are displayed; with no such checkpoint
\* the call changes nothing.
C19_StrictCheckpointNavigation ==
    LET list == getAllCheckpoints(nav)
        before == {i \in 1..Len(list) : list[i].videoTime < nav.currentTime}
        after == {i \in 1..Len(list) : list[i].videoTime > nav.currentTime}
        At(c) == [nav EXCEPT !.paused = TRUE,
                             !.currentTime = c.videoTime,
                             !.currentPosition = formatPositionForDisplay(c.position),
                             !.currentRepIndex = c.repNum - 1]
    IN  /\ navigateToPreviousCheckpoint(nav) =
              IF before = {} THEN nav ELSE At(list[Greatest(before)])
        /\ navigateToNextCheckpoint(nav) =
              IF after = {} THEN nav ELSE At(list[Least(after)])
        /\ before # {} => navigateToPreviousCheckpoint(nav).currentTime < nav.currentTime
        /\ after # {} => navigateToNextCheckpoint(nav).currentTime > nav.currentTime

\* C19 witness: navigation has paused the video at the later capture time, on
\* a checkpoint of the second rep, with checkpoints before and at that time.
C19_Witness ==
    LET list == getAllCheckpoints(nav)
    IN  /\ nav.paused
        /\ nav.currentTime = 103
        /\ nav.currentRepIndex = 1
        /\ nav.currentPosition = "Bottom"
        /\ Len(list) >= 3
        /\ list[1].videoTime = 100
        /\ list[Len(list)].videoTime = 103

\* C20: for a query time t the resolver selects the last checkpoint c of the
\* list with c.videoTime - 0.05 <= t and reports rep c.repNum and c's
\* position; when t precedes every checkpoint by more than the tolerance it
\* reports rep 1 and sets no position; with no checkpoints it changes nothing.
C20_ResolveTime ==
    \A t \in PlaybackTimes \cup CaptureTimes :
        LET list == getAllCheckpoints(nav)
            reached == {i \in 1..Len(list) : list[i].videoTime - SyncTolerance <= t}
            resolved == updateRepAndPositionFromTime(nav, t)
        IN  resolved =
               IF Len(list) = 0 THEN nav
               ELSE IF reached = {} THEN [nav EXCEPT !.currentRepIndex = 0]
               ELSE [nav EXCEPT
                       !.currentRepIndex = list[Greatest(reached)].repNum - 1,
                       !.currentPosition =
                           formatPositionForDisplay(list[Greatest(reached)].position)]

\* C20 witness: playback is 0.04 s before the first checkpoint, which is of
\* the second rep, and more than the tolerance before the next one; the
\* first checkpoint's rep and position are displayed.
C20_Witness ==
    LET list == getAllCheckpoints(nav)
    IN  /\ ~nav.paused
        /\ nav.currentTime = 96
        /\ Len(list) >= 2
        /\ list[1] = [repNum |-> 2, position |-> "bottom", videoTime |-> 100]
        /\ list[2].videoTime = 103
        /\ list[2].repNum = 1
        /\ nav.currentRepIndex = 1
        /\ nav.currentPosition = "Bottom"


\* C21: navigateToPreviousRep at the first rep, and navigateToNextRep at the
\* last rep or with a rep count of 0, change nothing (no pause, no seek, no
\* index update); in every other case the video is paused and the rep index
\* requested is exactly one lower (one higher) and lies within
\* 0..repCount - 1.
C21_RepNavigationWithinReps ==
    LET previous == navigateToPreviousRep(nav)
        next == navigateToNextRep(nav)
    IN  /\ IF nav.currentRepIndex = 0 THEN previous = nav
           ELSE /\ previous.paused
                /\ previousRepIndex(nav) = nav.currentRepIndex - 1
                /\ previousRepIndex(nav) \in 0..(nav.repCount - 1)
        /\ IF nav.repCount = 0 \/ nav.currentRepIndex = nav.repCount - 1 THEN next = nav
           ELSE /\ next.paused
                /\ nextRepIndex(nav) = nav.currentRepIndex + 1
                /\ nextRepIndex(nav) \in 0..(nav.repCount - 1)


\* What C22 expects of a rep navigation from n to rep targetRepNum with result
\* r: the position of the displayed phase when the target rep has one, else
\* the position the target rep captured first, else (no position) no seek.
PhasePreserved(n, r, targetRepNum) ==
    LET positions == IF targetRepNum \in DOMAIN n.repThumbnails
                     THEN n.repThumbnails[targetRepNum] ELSE EmptyMap
        same == {p \in DOMAIN positions : formatPositionForDisplay(p) = n.currentPosition}
        first == {p \in DOMAIN positions : positions[p].inserted = 1}
    IN  /\ r.paused
        /\ IF same # {}
           THEN /\ \E p \in same : r.currentTime = positions[p].videoTime
                /\ r.currentPosition = n.currentPosition
           ELSE IF DOMAIN positions # {}
           THEN \E p \in first : /\ r.currentTime = positions[p].videoTime
                                  /\ r.currentPosition = formatPositionForDisplay(p)
           ELSE /\ r.currentTime = n.currentTime
                /\ r.currentPosition = n.currentPosition

\* C22: rep navigation keeps the displayed phase when the target rep has a
\* captured position for it, seeking to that position's time; otherwise it
\* seeks to the target rep's first captured position and displays that
\* position's phase.
C22_PhaseKeptAcrossReps ==
    /\ previousRepIndex(nav) # nav.currentRepIndex =>
          PhasePreserved(nav, navigateToPreviousRep(nav), previousRepIndex(nav) + 1)
    /\ (nav.repCount > 0 /\ nextRepIndex(nav) # nav.currentRepIndex) =>
          PhasePreserved(nav, navigateToNextRep(nav), nextRepIndex(nav) + 1)

\* C22 witness: every position of both reps is captured at the same time, so
\* checkpoint navigation reaches only the first and the last of them; the
\* video is paused on the top of the second rep, which that rep captured
\* after its bottom: the step from the top of the first rep kept the phase.
C22_Witness ==
    /\ nav.paused
    /\ nav.currentTime = 100
    /\ nav.currentRepIndex = 1
    /\ nav.currentPosition = "Top"
    /\ DOMAIN nav.repThumbnails = {1, 2}
    /\ \A r \in {1, 2} : /\ DOMAIN nav.repThumbnails[r] = {"top", "bottom"}
                         /\ \A p \in {"top", "bottom"} :
                               nav.repThumbnails[r][p].videoTime = 100
    /\ nav.repThumbnails[2]["bottom"].inserted = 1
    /\ nav.repThumbnails[2]["top"].inserted = 2


-----------------------------------------------------------------------------
(* The claims about video loading, checked under SpecLoad *)

\* C23: starting a load aborts the controller of the load before it and then
\* installs its own, so at most one of the controllers made is not aborted,
\* and it is the one in the ref: at most one load holds a non-aborted
\* controller.
C23_OneLiveController ==
    LET live == {i \in 1..Len(loader.controllers) : ~loader.controllers[i]}
    IN  /\ Cardinality(live) <= 1
        /\ live \subseteq {loader.ref}
        /\ loader.ref = Len(loader.controllers)

\* C23 witness: a second load was started while the first was in flight; the
\* first is still suspended, with its controller aborted, and the second
\* holds the only live controller.
C23_Witness ==
    /\ Len(loader.loads) = 2
    /\ loader.loads[1].pc \notin {"done"}
    /\ loader.controllers[1]
    /\ loader.loads[2].pc \notin {"done"}
    /\ ~loader.controllers[2]
    /\ loader.ref = 2


-----------------------------------------------------------------------------
(* The claims about the speed-smoothing pass, checked under SpecSpeeds *)

\* Frame i has a defined raw speed: it has a predecessor, both have a
\* skeleton, the elapsed time is in (0, 0.5] and the velocity is known.
Defined(frames, i) ==
    /\ i >= 2
    /\ frames[i - 1].skeleton /\ frames[i].skeleton
    /\ frames[i].videoTime - frames[i - 1].videoTime > 0
    /\ frames[i].videoTime - frames[i - 1].videoTime <= MaxDelta
    /\ frames[i].velocity # NullSpeed

\* The indices of the window of the given size centred at i, clipped at the
\* ends of the track.
Window(frames, i, windowSize) ==
    {j \in 1..Len(frames) : j >= i - windowSize \div 2 /\ j <= i + windowSize \div 2}

\* The frames of the window that have a defined raw speed.
Known(frames, i, windowSize) ==
    {j \in Window(frames, i, windowSize) : Defined(frames, j)}

\* out is frames with angles.wristSpeed a number on every frame: the angles
\* record created with zero angles where the frame had none, its other fields
\* kept where it had one, and the speed 0 where the window holds no defined
\* raw speed.
SpeedsAdded(frames, out, windowSize) ==
    /\ Len(out) = Len(frames)
    /\ \A i \in 1..Len(frames) :
          LET before == frames[i]
              after == out[i]
          IN  /\ after.videoTime = before.videoTime
              /\ after.skeleton = before.skeleton
              /\ after.velocity = before.velocity
              /\ "wristSpeed" \in DOMAIN after.angles
              /\ after.angles.wristSpeed \in Nat
              /\ IF before.angles = NoAngles
                 THEN after.angles =
                         [spineAngle |-> 0, armToSpineAngle |-> 0,
                          armToVerticalAngle |-> 0,
                          wristSpeed |-> after.angles.wristSpeed]
                 ELSE /\ DOMAIN after.angles =
                            DOMAIN before.angles \cup {"wristSpeed"}
                      /\ \A f \in DOMAIN before.angles \ {"wristSpeed"} :
                            after.angles[f] = before.angles[f]
              /\ Known(frames, i, windowSize) = {} => after.angles.wristSpeed = 0

\* C24: computeFrameSpeeds returns the same sequence of frames with
\* angles.wristSpeed a number on every frame: the angles record is created
\* (with zero angles) when the frame has none, and its other fields are kept
\* when it has one; an empty sequence gives an empty one; a frame whose window
\* holds no defined raw speed, such as the only frame of a track, gets 0.
C24_SpeedOnEveryFrame ==
    /\ \A config \in SpeedConfigs :
          SpeedsAdded(track.frames, computeFrameSpeeds(track.frames, config),
                      config.windowSize)
    /\ track.computed =>
          \A i \in 1..Len(track.frames) :
              /\ track.frames[i].angles # NoAngles
              /\ track.frames[i].angles.wristSpeed \in Nat

\* C24 witness: the pass has run over four frames; the first, with only
\* itself and a frame after a gap in its window, got new angles and speed 0;
\* the third kept its angles and got the median of 0 and 2 m/s.
C24_Witness ==
    /\ track.computed
    /\ Len(track.frames) = 4
    /\ track.frames[2].videoTime - track.frames[1].videoTime = MaxDelta + 1
    /\ track.frames[1].angles =
          [spineAngle |-> 0, armToSpineAngle |-> 0, armToVerticalAngle |-> 0,
           wristSpeed |-> 0]
    /\ track.frames[3].angles =
          [spineAngle |-> 10, armToSpineAngle |-> 20, armToVerticalAngle |-> 30,
           wristSpeed |-> 100]

\* The number of frames of S slower than x, and no faster than x.
Slower(frames, S, x) == Cardinality({k \in S : frames[k].velocity < x})

NoFaster(frames, S, x) == Cardinality({k \in S : frames[k].velocity <= x})

\* The r-th smallest of the velocities of the frames of S.
Ranked(frames, S, r) ==
    CHOOSE x \in {frames[k].velocity : k \in S} :
        Slower(frames, S, x) < r /\ NoFaster(frames, S, x) >= r

\* The sum of the velocities of the frames of S.
RECURSIVE Total(_, _)
Total(frames, S) ==
    IF S = {} THEN 0
    ELSE LET k == CHOOSE j \in S : TRUE
         IN  frames[k].velocity + Total(frames, S \ {k})

\* The median and the mean of the velocities of the frames of S, and 0 when
\* there are none.
MedianOf(frames, S) ==
    LET n == Cardinality(S)
    IN  IF n = 0 THEN Fraction(0, 1)
        ELSE IF n % 2 = 1 THEN Fraction(Ranked(frames, S, (n + 1) \div 2), 1)
        ELSE Fraction(Ranked(frames, S, n \div 2) + Ranked(frames, S, n \div 2 + 1), 2)

MeanOf(frames, S) ==
    IF S = {} THEN Fraction(0, 1) ELSE Fraction(Total(frames, S), Cardinality(S))

\* C25: a frame whose elapsed time since the frame before is <= 0 or > 0.5 s
\* has an unknown raw speed, not 0, and is left out of every window: each
\* smoothed speed is the median (mean) of the speeds of the frames of its
\* window that have a defined raw speed.
C25_BadDeltaIsUnknown ==
    LET frames == track.frames
        rawSpeeds == computeRawSpeeds(frames)
    IN  /\ \A i \in 2..Len(frames) :
              (\/ frames[i].videoTime - frames[i - 1].videoTime <= 0
               \/ frames[i].videoTime - frames[i - 1].videoTime > MaxDelta)
                 => rawSpeeds[i] = NullSpeed
        /\ \A config \in SpeedConfigs :
              smoothSpeeds(rawSpeeds, config.windowSize, config.smoothingMethod) =
                 [i \in 1..Len(frames) |->
                     IF config.smoothingMethod = "median"
                     THEN MedianOf(frames, Known(frames, i, config.windowSize))
                     ELSE MeanOf(frames, Known(frames, i, config.windowSize))]

\* C25 witness: the pass has run over a track whose third frame comes 0.51 s
\* after the second; the second frame's window holds that frame and one
\* speed of 2 m/s, and its smoothed speed is 2 m/s, not the 1 m/s a sample of
\* 0 would give.
C25_Witness ==
    /\ track.computed
    /\ Len(track.frames) >= 3
    /\ Defined(track.frames, 2)
    /\ track.frames[2].velocity = 200
    /\ track.frames[3].videoTime - track.frames[2].videoTime = MaxDelta + 1
    /\ track.frames[3].skeleton
    /\ track.frames[2].angles.wristSpeed = 200

\* C26: where the raw speeds read s, s, 0, s, s with s > 0, the median over
\* a window of 3 at the zero is at least the mean there; with s = 2 m/s the
\* median is 2 and the mean 1.33.
C26_MedianKeepsPeak ==
    LET rawSpeeds == computeRawSpeeds(track.frames)
        byMedian == smoothSpeeds(rawSpeeds, 3, "median")
        byMean == smoothSpeeds(rawSpeeds, 3, "mean")
    IN  \A i \in 3..(Len(rawSpeeds) - 2) :
            (/\ rawSpeeds[i] = 0
             /\ rawSpeeds[i - 1] > 0
             /\ \A j \in {i - 2, i + 1, i + 2} : rawSpeeds[j] = rawSpeeds[i - 1])
              => /\ byMedian[i].num * byMean[i].den >= byMean[i].num * byMedian[i].den
                 /\ rawSpeeds[i - 1] = 200 =>
                       /\ RoundToHundredths(byMedian[i]) = 200
                       /\ RoundToHundredths(byMean[i]) = 133

\* C26 witness: the pass has run over six frames whose raw speeds after the
\* first are 2, 2, 0, 2, 2 m/s, and the frame at rest got 2 m/s.
C26_Witness ==
    /\ track.computed
    /\ Len(track.frames) = 6
    /\ \A i \in 2..6 : Defined(track.frames, i)
    /\ \A i \in {2, 3, 5, 6} : track.frames[i].velocity = 200
    /\ track.frames[4].velocity = 0
    /\ track.frames[4].angles.wristSpeed = 200


-----------------------------------------------------------------------------
(* The claims about the depth of a squat, checked under SpecDepth *)

\* C27: calculateDepthFromNormalizedY returns an integer in [0, 100] that
\* does not decrease as the normalized ear Y grows: 0.15 gives 0, 0.4 gives
\* 50, 0.65 gives 100, every value below 0.15 gives 0 and every value above
\* 0.65 gives 100.
C27_DepthClampedAndMonotone ==
    /\ squat.depth \in 0..100
    /\ \A lower \in EarYs :
          lower <= squat.normalizedEarY
             => calculateDepthFromNormalizedY(lower) <= squat.depth
    /\ squat.normalizedEarY = 150 => squat.depth = 0
    /\ squat.normalizedEarY = 400 => squat.depth = 50
    /\ squat.normalizedEarY = 650 => squat.depth = 100
    /\ squat.normalizedEarY < 150 => squat.depth = 0
    /\ squat.normalizedEarY > 650 => squat.depth = 100

\* C27 witness: the ear is below the bottom of the frame, past 0.65, and the
\* depth measured is 100.
C27_Witness == squat.normalizedEarY > 1000 /\ squat.depth = 100


-----------------------------------------------------------------------------
(* The claims about the placement of the canvas, checked under SpecCanvas *)

\* C28: the contain-mode placement keeps the video's aspect ratio, exceeds
\* the container in neither dimension, equals it in at least one, and leaves
\* the same space on both sides of the other; when the video and the
\* container have the same aspect ratio it fills the container exactly, with
\* no letterbox offset.
C28_ContainPlacement ==
    LET video == canvas.video
        container == canvas.container
        placement == calculateNormalModePlacement(video, container, canvas.videoOffset)
        before == [x |-> Minus(placement.left, Whole(canvas.videoOffset.x)),
                   y |-> Minus(placement.top, Whole(canvas.videoOffset.y))]
        after == [x |-> Minus(Whole(container.width), Plus(before.x, placement.width)),
                  y |-> Minus(Whole(container.height), Plus(before.y, placement.height))]
    IN  /\ Times(placement.width, Whole(video.videoHeight)) =
              Times(placement.height, Whole(video.videoWidth))
        /\ ~Greater(placement.width, Whole(container.width))
        /\ ~Greater(placement.height, Whole(container.height))
        /\ \/ placement.width = Whole(container.width)
           \/ placement.height = Whole(container.height)
        /\ before.x = after.x /\ before.y = after.y
        /\ ~Greater(Whole(0), before.x) /\ ~Greater(Whole(0), before.y)
        /\ video.videoWidth * container.height = container.width * video.videoHeight
              => /\ placement.width = Whole(container.width)
                 /\ placement.height = Whole(container.height)
                 /\ placement.left = Whole(canvas.videoOffset.x)
                 /\ placement.top = Whole(canvas.videoOffset.y)

\* C28 witness: with zoom off, the canvas over the 8 x 4 video in a 2 x 3
\* element at (1, 2) has been placed 2 x 1 at (1, 3): one pixel is left above
\* it and one below.
C28_Witness ==
    /\ ~canvas.isCropEnabled
    /\ canvas.video = [videoWidth |-> 8, videoHeight |-> 4]
    /\ canvas.container = [width |-> 2, height |-> 3]
    /\ canvas.videoOffset = [x |-> 1, y |-> 2]
    /\ canvas.placement =
          [width |-> Whole(2), height |-> Whole(1), left |-> Whole(1),
           top |-> Whole(3), objectPosition |-> NoObjectPosition]

\* C29: the cover-mode placement scales the video by
\* max(containerWidth / videoWidth, containerHeight / videoHeight) in both
\* dimensions and places it so that the centre of the crop region is at the
\* centre of the container, wherever the crop region lies.
C29_CoverCentresCrop ==
    canvas.cropRegion # NoCrop =>
        LET video == canvas.video
            container == canvas.container
            crop == canvas.cropRegion
            placement == calculateZoomedModePlacement(video, container,
                                                      canvas.videoOffset, crop)
            scale == Larger(Over(Whole(container.width), Whole(video.videoWidth)),
                            Over(Whole(container.height), Whole(video.videoHeight)))
            centreX == Plus(Minus(placement.left, Whole(canvas.videoOffset.x)),
                            Times(Plus(Whole(crop.x), Over(Whole(crop.width), Whole(2))),
                                  scale))
            centreY == Plus(Minus(placement.top, Whole(canvas.videoOffset.y)),
                            Times(Plus(Whole(crop.y), Over(Whole(crop.height), Whole(2))),
                                  scale))
        IN  /\ placement.width = Times(Whole(video.videoWidth), scale)
            /\ placement.height = Times(Whole(video.videoHeight), scale)
            /\ centreX = Over(Whole(container.width), Whole(2))
            /\ centreY = Over(Whole(container.height), Whole(2))


-----------------------------------------------------------------------------
(* The claims about the stable crop region, checked under SpecCrop *)

\* C30: the crop rectangle returned, as rounded, lies within the video frame
\* (x >= 0, y >= 0, x + width <= videoWidth, y + height <= videoHeight), and
\* the clamping only moves the rectangle: its size is the size it had before
\* it was clamped.
C30_CropWithinFrame ==
    (stable.calculated /\ stable.cropRegion # NoCrop) =>
        LET crop == stable.cropRegion
            size == cropSize(mergeBoundingBoxes(collectBoxes(stable.frames)),
                             stable.videoWidth, stable.videoHeight)
        IN  /\ crop.x >= 0
            /\ crop.y >= 0
            /\ crop.x + crop.width <= stable.videoWidth
            /\ crop.y + crop.height <= stable.videoHeight
            /\ crop.width = MathRound(size.cropWidth)
            /\ crop.height = MathRound(size.cropHeight)

-----------------------------------------------------------------------------
(* The claims about the loading indicator, checked under SpecLoad *)

\* The load whose controller is in the ref is in flight: its controller is
\* not aborted and its async function has not returned.
InFlight(l, i) ==
    /\ i = l.ref
    /\ i <= Len(l.loads)
    /\ ~l.controllers[i]
    /\ l.loads[i].pc # "done"

\* The status lines of a failed load.
ErrorStatuses == {ErrorOf("upload"), ErrorOf("sample")}

\* C31: an aborted load has no effect on the loading state of the load that
\* replaced it: a step of a load whose controller is aborted, taken while the
\* newer load is in flight, leaves the loading indicator, the progress and
\* the loading message as the newer load set them, and sets no error status.
C31_AbortedLoadLeavesIndicator ==
    [][\A i, j \in 1..Len(loader.loads) :
          (/\ InFlight(loader, i)
           /\ loader.controllers[j]
           /\ Len(loader'.loads) = Len(loader.loads)
           /\ loader'.loads[j] # loader.loads[j])
          => /\ loader'.isVideoLoading = loader.isVideoLoading
             /\ loader'.videoLoadProgress = loader.videoLoadProgress
             /\ loader'.videoLoadMessage = loader.videoLoadMessage
             /\ (hook'.status \in ErrorStatuses => hook'.status = hook.status)]_vars

\* Video loading under the scheduling of the event loop: the await a load is
\* suspended at settles (the metadata wait by its 10-second timer at the
\* latest) and the task that continues the load then runs.
SpecLoadFair == InitOutsideAnalyzer /\ [][NextLoad]_vars /\ WF_vars(ResumeLoad)

-----------------------------------------------------------------------------
(* The claim about a scorer that throws, checked under SpecScorer *)

\* C33: completeRep() is all-or-nothing: after a call in which the scorer
\* threw, repCount, lastRepQuality and the peak map are what they were before
\* the call.
C33_CompleteRepAllOrNothing ==
    last.op = "completeRepThrown" =>
        /\ an.repCount = last.before.repCount
        /\ an.lastRepQuality = last.before.lastRepQuality
        /\ an.currentRepPeaks = last.before.currentRepPeaks

-----------------------------------------------------------------------------
(* The claim about the rep index of the reducer, checked under SpecReducer *)

\* C34: in every reachable reducer state the current rep index refers to an
\* existing rep or is 0: currentRepIndex = 0 or currentRepIndex < repCount.
C34_RepIndexWithinCount ==
    \/ reducerState.currentRepIndex = 0
    \/ reducerState.currentRepIndex < reducerState.analysis.repCount

-----------------------------------------------------------------------------
(* The claim about the session across lock changes, checked under SpecSession *)

\* C35: a change of the detection lock never disposes the active session or
\* replaces the pipeline: while the component is mounted the session and the
\* pipeline in the refs are the ones made when it mounted, and no session has
\* been disposed.
C35_SessionKeptAcrossLockChanges ==
    /\ session.session = NewSession.session
    /\ session.pipeline = NewSession.pipeline
    /\ session.disposed = {}

-----------------------------------------------------------------------------
(* The claim about the metadata wait, checked under SpecWait *)

\* The messages handleError may reject with.
ErrorMessages == {errorMessage(mediaError) : mediaError \in MediaErrors}

\* C36: the metadata wait settles exactly once, by what happens first: it
\* resolves on loadedmetadata and rejects on the media error, on the abort of
\* the signal and on the timeout; resolve and reject are called once in all;
\* once it has settled the timer and the three listeners are gone, and while
\* it is pending they are all in place; entered with the signal aborted, it
\* is rejected with nothing registered.
C36_MetadataWaitSettlesOnce ==
    /\ wait.settled <= 1
    /\ wait.promise = "pending" <=> (wait.entered > 0 /\ wait.settled = 0)
    /\ wait.promise = "pending" => wait.timer /\ wait.listeners = WaitListeners
    /\ wait.promise # "pending" => ~wait.timer /\ wait.listeners = {}
    /\ wait.first = NoEvent <=> wait.promise \in {"none", "pending"}
    /\ wait.first = "loadedmetadata" <=> wait.promise = "resolved"
    /\ wait.first = "error" => wait.promise = "rejected" /\ wait.reason \in ErrorMessages
    /\ wait.first = "abort" => wait.promise = "rejected" /\ wait.reason = AbortError
    /\ wait.first = "timeout" => wait.promise = "rejected" /\ wait.reason = TimeoutError
    /\ wait.syncRequests <= wait.entered

\* C36 witness: a second wait has resolved on loadedmetadata, and after it
\* the signal was aborted and another event arrived, with no listener left
\* for either.
C36_Witness ==
    /\ wait.entered = 2
    /\ wait.promise = "resolved"
    /\ wait.aborted
    /\ wait.ignored = 2
    /\ wait.settled = 1

-----------------------------------------------------------------------------
(* The claims about checkpoint navigation and its resync, checked under      *)
(* SpecNavigation                                                            *)

\* The seeked event after a navigation: the handler calls the sync handler of
\* the render after the navigation with the time sought to.
Resynced(n) == updateRepAndPositionFromTime(n, n.currentTime)

\* The rep and the position on display are the same in both.
SameDisplay(a, b) ==
    /\ a.currentRepIndex = b.currentRepIndex
    /\ a.currentPosition = b.currentPosition

\* C37: after previous- or next-checkpoint navigation has sought to a
\* checkpoint, the resync at that checkpoint's video time shows the same rep
\* and the same position as the navigation did.
C37_ResyncKeepsNavigation ==
    LET checkpoints == getAllCheckpoints(nav)
        previous == navigateToPreviousCheckpoint(nav)
        next == navigateToNextCheckpoint(nav)
    IN  /\ findPreviousCheckpoint(checkpoints, nav.currentTime) # NoCheckpoint
            => SameDisplay(Resynced(previous), previous)
        /\ findNextCheckpoint(checkpoints, nav.currentTime) # NoCheckpoint
            => SameDisplay(Resynced(next), next)

-----------------------------------------------------------------------------
(* Repeated checkpoint navigation, checked under SpecNavigation *)

\* What the hook shows of a checkpoint: the rep, the label and the time.
Shown(n) ==
    [repNum |-> n.currentRepIndex + 1,
     position |-> n.currentPosition,
     videoTime |-> n.currentTime]

\* What the hook shows once it has navigated to a checkpoint.
ShownAt(checkpoint) ==
    [repNum |-> checkpoint.repNum,
     position |-> formatPositionForDisplay(checkpoint.position),
     videoTime |-> checkpoint.videoTime]

\* The states after 1, 2, ... presses of next checkpoint, up to the first
\* press that changes nothing or to the given number of presses.
RECURSIVE NextPresses(_, _)
NextPresses(n, presses) ==
    LET after == navigateToNextCheckpoint(n)
    IN  IF presses = 0 \/ after = n THEN <<>>
        ELSE <<Shown(after)>> \o NextPresses(after, presses - 1)

\* The same for previous checkpoint.
RECURSIVE PreviousPresses(_, _)
PreviousPresses(n, presses) ==
    LET after == navigateToPreviousCheckpoint(n)
    IN  IF presses = 0 \/ after = n THEN <<>>
        ELSE <<Shown(after)>> \o PreviousPresses(after, presses - 1)

\* A sequence in reverse order.
Reversed(s) == [i \in 1..Len(s) |-> s[Len(s) + 1 - i]]

\* C38: from a time before the first checkpoint, pressing next checkpoint
\* again and again shows every checkpoint once, in the order of the list, and
\* then changes nothing; from a time after the last checkpoint, pressing
\* previous checkpoint shows every checkpoint in reverse order.
C38_NavigationVisitsEveryCheckpoint ==
    LET checkpoints == getAllCheckpoints(nav)
        all == [i \in 1..Len(checkpoints) |-> ShownAt(checkpoints[i])]
    IN  Len(checkpoints) > 0 =>
            /\ nav.currentTime < checkpoints[1].videoTime
                   => NextPresses(nav, Len(checkpoints) + 1) = all
            /\ nav.currentTime > checkpoints[Len(checkpoints)].videoTime
                   => PreviousPresses(nav, Len(checkpoints) + 1) = Reversed(all)

-----------------------------------------------------------------------------
(* The claim about the throttled sync, checked under SpecSync *)

\* C39: the frame callback calls the sync handler only when at least
\* REP_SYNC_INTERVAL_MS of callback time have passed since the last call it
\* made (since 0 before the first), and then it calls it: with a session and
\* while playing, exactly then.  A seeked event calls the handler whatever the
\* time passed, and leaves the stamp of the throttle as it found it.  The
\* stamp is always the timestamp of the frame callback's last call.
C39_ThrottledSync ==
    /\ sync.handler = "frame" =>
           (sync.called <=> sync.sinceThrottled >= REP_SYNC_INTERVAL_MS)
    /\ sync.handler = "seeked" =>
           sync.called /\ sync.lastRepSyncTime = sync.stampBefore
    /\ sync.handler \in {"play", "pause", "ended"} => ~sync.called
    /\ sync.lastRepSyncTime = sync.lastThrottled

\* C39 witness: a seeked event called the handler 400 ms after the frame
\* callback's call at 1000 ms, while playing, and the stamp is still 1000.
C39_Witness ==
    /\ sync.handler = "seeked"
    /\ sync.called
    /\ sync.isPlaying
    /\ sync.clock = 1400
    /\ sync.lastRepSyncTime = 1000

-----------------------------------------------------------------------------
(* The claim about the reducer's purity, checked under SpecThumbnails *)

\* C40: a call of analyzerReducer leaves the state object it was given as it
\* was: the thumbnail Maps of that state, the inner Map of each rep included,
\* hold after the call exactly what they held when it was made.
C40_ReducerLeavesGivenState ==
    Contents(thumbnails.heap, thumbnails.given) = Contents(thumbnails.givenHeap, thumbnails.given)

====
